---------------------------- MODULE Spec2Model ----------------------------
(***************************************************************************)
(* A model of software-project-estimator: the per-iteration state machine  *)
(* (simulation/iteration.py, simulation/states/*.py), the Project calendar *)
(* and capacity helpers (project.py) and the Monte Carlo driver            *)
(* (simulation/monte_carlo.py).                                            *)
(*                                                                         *)
(* Representation.                                                         *)
(*  - Optional[T] is a sequence of length <= 1: None is <<>>, a value v is *)
(*    <<v>>.                                                               *)
(*  - A date is its number of days since 2020-01-01 (a Wednesday).         *)
(*  - Person-day amounts (demand, capacity, losses) are floats in the      *)
(*    code; here each is kept exactly, as the integer number of            *)
(*    person-HOURS it stands for (person-days x work_hours_per_day), so    *)
(*    the division by work_hours_per_day of max_person_days_per_week is    *)
(*    exact.  communication_penalty is kept in half-hours.                 *)
(*  - working_days_left is the exact fraction <<num, den>>, den > 0.       *)
(***************************************************************************)
EXTENDS Integers, Sequences, FiniteSets, TLC

VARIABLES
    project,                \* IterationContext.project / MonteCarlo.project
    state,                  \* IterationContext._state (name of the state class)
    person_days_remaining,  \* IterationContext.person_days_remaining
    remainder_days,         \* IterationContext.remainder_days
    working_days_left,      \* IterationContext.working_days_left
    result,                 \* IterationContext.result
    provisional_result,     \* IterationContext.provisional_result
    current_date,           \* IterationContext.current_date
    work_holidays,          \* Project._work_holidays (year -> holiday set)
    run_pc,                 \* position of Iteration.run
    exc,                    \* exception that left Iteration.run, if any
    mc_pc,                  \* position of MonteCarlo.run
    iterations,             \* MonteCarlo.iterations
    mc_started,             \* iterations handed to the pool so far
    results,                \* the results list of MonteCarlo.run
    events,                 \* events passed to notify_observers, in order
    mc_return,              \* value returned by MonteCarlo.run / _process_results
    mc_exc,                 \* exception raised by MonteCarlo.run, if any
    observers,              \* Observable._observers (what each update() does)
    last_call,              \* the last call made on a model object, and its outcome
    group                   \* TaskGroup.tasks

ctx_vars == <<state, person_days_remaining, remainder_days, working_days_left,
              result, provisional_result, current_date, run_pc, exc>>
mc_vars == <<mc_pc, iterations, mc_started, results, events, mc_return, mc_exc>>
env_vars == <<observers, last_call, group>>
vars == <<project, ctx_vars, work_holidays, mc_vars, env_vars>>

None == <<>>
Some(v) == <<v>>

(***************************************************************************)
(* Bounds of the model.                                                    *)
(***************************************************************************)
MaxDate == 35          \* CalculatingWeeks is not stepped past this date
MaxDemand == 12        \* largest demand sample of a task, in person-days
MaxIterations == 3     \* largest iteration count given to MonteCarlo
MaxObservers == 3      \* largest number of observers registered
MaxEstimate == 3       \* largest estimate given to the Task constructor
MaxTasks == 3          \* number of Task objects offered to a TaskGroup

DAYS_IN_A_WEEK == 7
WEEKS_IN_A_YEAR == 52

(***************************************************************************)
(* Tasks (task.py).                                                        *)
(***************************************************************************)
Task(o, l, p) == [optimistic |-> o, likely |-> l, pessimistic |-> p]

\* stddev is 0 exactly when pessimistic = optimistic; only that matters here.
stddev_is_zero(task) == task.pessimistic - task.optimistic = 0

\* average of a task whose three estimates are equal: (o + o + 4o) / 6 = o.
average(task) == (task.optimistic + task.pessimistic + 4 * task.likely) \div 6

TaskGroup(ts) == [tasks |-> ts]

ensure_estimates_are_sane_upto_likely(optimistic, likely, pessimistic) ==
    IF optimistic < 0
    THEN Some("Optimistic estimate must be zero or more")
    ELSE IF likely < optimistic
    THEN Some("Likely estimate must be equal to or greater than the optimistic estimate")
    ELSE None

\* The root validator of Task: the ValueError it raises, if any.
ensure_estimates_are_sane(optimistic, likely, pessimistic) ==
    IF optimistic < 0
    THEN Some("Optimistic estimate must be zero or more")
    ELSE IF likely < optimistic
    THEN Some("Likely estimate must be equal to or greater than the optimistic estimate")
    ELSE IF pessimistic < likely
    THEN Some("Pessimistic estimate must be equal to or greater than the likely estimate")
    ELSE None

task_count(tasks) == Len(tasks)

add_task_always(tasks, task) ==
    [returned |-> TRUE, tasks |-> Append(tasks, task)]

\* TaskGroup.add_task on a group whose task list is tasks: what it returns
\* and the task list afterwards.  "task in self.tasks" compares the fields of
\* the models, id_ included.
add_task(tasks, task) ==
    IF \E i \in 1..Len(tasks) : tasks[i] = task
    THEN [returned |-> FALSE, tasks |-> tasks]
    ELSE [returned |-> TRUE, tasks |-> Append(tasks, task)]

(***************************************************************************)
(* Project helpers (project.py).                                           *)
(***************************************************************************)
work_days_per_week(p) == Len(p.weekly_work_days)

work_week_hours(p) == work_days_per_week(p) * p.work_hours_per_day

num_communication_channels(p) ==
    (p.developer_count * (p.developer_count - 1)) \div 2

max_person_days_per_week_of_one_developer(p) ==
    LET base_hours == work_week_hours(p)
        communication_hours ==
            (2 * num_communication_channels(p) * p.communication_penalty) \div 2
    IN  base_hours - communication_hours

\* In person-hours: (base_hours - communication_hours); the code divides by
\* work_hours_per_day to get person-days.  communication_penalty is in
\* half-hours, hence the division by 2 (exact: the dividend is even).
max_person_days_per_week(p) ==
    LET base_hours == p.developer_count * work_week_hours(p)
        communication_hours ==
            (2 * num_communication_channels(p) * p.communication_penalty) \div 2
    IN  base_hours - communication_hours

\* datetime.date.weekday() of a day number; day 0 is Wednesday 2020-01-01.
weekday(d) == (d + 2) % 7

year(d) == IF d < 366 THEN 2020 ELSE 2021

InSeq(x, s) == \E i \in 1..Len(s) : s[i] = x

Range(s) == {s[i] : i \in 1..Len(s)}

\* holidays.country_holidays(code, years=[y]): the codes the library knows and
\* the holidays it returns (US 2020: Jan 1, Jan 20, Feb 17; the next one,
\* May 25, is day 145.  DE 2020: Jan 1; the next one, Apr 10, is day 100).
SupportedCountries == {"US", "DE"}
country_holidays(code, y) ==
    IF code = "US" /\ y = 2020 THEN {0, 19, 47}
    ELSE IF code = "DE" /\ y = 2020 THEN {0}
    ELSE {}

\* is_holiday reads the memo of the year when it is there and fills it
\* otherwise.  HolidayRaises: the lookup raises ValueError.
HolidayRaises(p, memo, d) ==
    /\ p.country_code # None
    /\ year(d) \notin DOMAIN memo
    /\ p.country_code[1] \notin SupportedCountries

holidays_this_year(p, memo, d) ==
    IF year(d) \in DOMAIN memo THEN memo[year(d)]
    ELSE country_holidays(p.country_code[1], year(d))

is_holiday(p, memo, d) ==
    IF p.country_code = None THEN FALSE
    ELSE d \in holidays_this_year(p, memo, d)

MemoAfter_of_next_year(p, memo, ds) ==
    IF p.country_code = None THEN memo
    ELSE LET ys == DOMAIN memo \cup {year(d) : d \in ds}
         IN  [y \in ys |-> IF y \in DOMAIN memo THEN memo[y]
                           ELSE country_holidays(p.country_code[1], y + 1)]

\* The memo after is_holiday was called on every date of ds (no call raised).
MemoAfter(p, memo, ds) ==
    IF p.country_code = None THEN memo
    ELSE LET ys == DOMAIN memo \cup {year(d) : d \in ds}
         IN  [y \in ys |-> IF y \in DOMAIN memo THEN memo[y]
                           ELSE country_holidays(p.country_code[1], y)]

WeekWindow(start) == start .. (start + DAYS_IN_A_WEEK - 1)

\* The loop of person_days_lost_to_holidays_this_week: days_to_go rounds are
\* left, this_date is the day the next round looks at.
RECURSIVE HolidayLoop(_, _, _, _, _)
HolidayLoop(p, memo, this_date, days_to_go, days_lost) ==
    IF days_to_go = 0 THEN days_lost
    ELSE HolidayLoop(p, memo, this_date + 1, days_to_go - 1,
                     IF is_holiday(p, memo, this_date)
                     THEN days_lost + p.developer_count
                     ELSE days_lost)

person_days_lost_to_holidays_this_week_none(p, memo, start_date) == 0

person_days_lost_to_holidays_this_week_per_team(p, memo, start_date) ==
    IF start_date = None THEN 0
    ELSE HolidayLoop([p EXCEPT !.developer_count = 1], memo, start_date[1],
                     DAYS_IN_A_WEEK, 0)

person_days_lost_to_holidays_this_week(p, memo, start_date) ==
    IF start_date = None THEN 0
    ELSE HolidayLoop(p, memo, start_date[1], DAYS_IN_A_WEEK, 0)

is_working_day_ignoring_holidays(p, memo, d) ==
    InSeq(weekday(d), p.weekly_work_days)

\* weekday() in weekly_work_days and not is_holiday(...)
is_working_day(p, memo, d) ==
    InSeq(weekday(d), p.weekly_work_days) /\ ~is_holiday(p, memo, d)

working_days_this_week_ignoring_holidays(p, memo, start_date) ==
    {d \in WeekWindow(start_date) : InSeq(weekday(d), p.weekly_work_days)}

working_days_this_week(p, memo, start_date) ==
    {d \in WeekWindow(start_date) : is_working_day(p, memo, d)}


(***************************************************************************)
(* IterationResult (simulation/models.py) and the messages of the states.  *)
(***************************************************************************)
NoProjectMsg == "No project was provided."
NoTasksMsg == "No tasks were present in the project."
NoCurrentDateMsg_of_project == "No project was provided."

NoCurrentDateMsg == "No current date was provided."
ErrorFallbackMsg == "Iteration failed unexpectedly. Someone should fix this."
SuccessFallbackMsg ==
    "Iteration succeeded without a result. This should NEVER HAPPEN. Someone should fix this."

Failure_reported_as_success(msg) ==
    [status |-> "success", message |-> Some(msg), attributes |-> None]

Failure(msg) == [status |-> "failure", message |-> Some(msg), attributes |-> None]

Success_ending_the_day_before(d) ==
    [status |-> "success", message |-> Some("Process completed."),
     attributes |-> Some([start_date |-> d - 1, end_date |-> d - 1])]

Success_ending_next_day(d) ==
    [status |-> "success", message |-> Some("Process completed."),
     attributes |-> Some([start_date |-> d, end_date |-> d + 1])]

Success(d) ==
    [status |-> "success", message |-> Some("Process completed."),
     attributes |-> Some([start_date |-> d, end_date |-> d])]

(***************************************************************************)
(* The random draws of IterationContext (simulation/iteration.py).         *)
(***************************************************************************)
\* numpy.random.normal(task.average, task.stddev), in person-hours of a
\* project working h hours a day: the mean itself when stddev is 0, any real
\* otherwise (here: -1, 0, 1/h, 3 and MaxDemand person-days).
NormalDraws(task, h) ==
    IF stddev_is_zero(task) THEN {average(task) * h}
    ELSE {0 - h, 0, 1, 3 * h, MaxDemand * h}

RECURSIVE SumOfDraws(_, _)
SumOfDraws(ts, h) ==
    IF ts = <<>> THEN {0}
    ELSE {a + b : a \in NormalDraws(Head(ts), h), b \in SumOfDraws(Tail(ts), h)}

RECURSIVE GroupTasks(_)
GroupTasks(gs) ==
    IF gs = <<>> THEN <<>> ELSE Head(gs).tasks \o GroupTasks(Tail(gs))

\* The values probabilistic_estimated_project_person_days can return: one
\* draw per task of every group, then one per direct task, summed from 0.0.
probabilistic_estimated_project_person_days(proj) ==
    IF proj = None THEN {0}
    ELSE SumOfDraws(GroupTasks(proj[1].task_groups) \o proj[1].tasks,
                    proj[1].work_hours_per_day)

\* The values probabilistic_weekly_person_days_lost_to_vacations can return,
\* in person-days: each developer loses work_days_per_week or nothing
\* (uniform(0, 52 / weeks_off_per_year) <= 1.0 can go either way when
\* 52 / weeks_off_per_year > 1, and is always true otherwise).
probabilistic_weekly_person_days_lost_to_vacations(proj) ==
    IF proj = None THEN {0}
    ELSE IF proj[1].weeks_off_per_year <= 0 THEN {0}
    ELSE LET maximum_above_one == WEEKS_IN_A_YEAR > proj[1].weeks_off_per_year
             fewest == IF maximum_above_one THEN 0 ELSE proj[1].developer_count
         IN  {k * work_days_per_week(proj[1]) :
                  k \in fewest..proj[1].developer_count}

(***************************************************************************)
(* Iteration.run and the state classes.                                    *)
(***************************************************************************)
Stepping_regardless == run_pc = "running"

Stepping == run_pc = "running" /\ result = None

Raise(e) == exc' = Some(e) /\ run_pc' = "raised"

\* Iteration.run, first statement: transition_to(IterationStateUninitialized()).
Run ==
    /\ run_pc = "constructed"
    /\ state' = "Uninitialized"
    /\ run_pc' = "running"
    /\ UNCHANGED <<project, person_days_remaining, remainder_days,
                   working_days_left, result, provisional_result, current_date,
                   exc, work_holidays, mc_vars, env_vars>>

has_valid_project_always(proj) == TRUE

has_valid_project(proj) == proj # None

has_tasks_or_task_groups_always(proj) == TRUE

has_tasks_or_task_groups(proj) ==
    ~(/\ proj # None /\ proj[1].tasks = <<>>
      /\ proj # None /\ proj[1].task_groups = <<>>)

UninitializedProcess ==
    /\ Stepping
    /\ state = "Uninitialized"
    /\ IF ~has_valid_project(project)
       THEN /\ provisional_result' = Some(Failure(NoProjectMsg))
            /\ state' = "Error"
            /\ UNCHANGED <<current_date, person_days_remaining, run_pc, exc>>
       ELSE IF ~has_tasks_or_task_groups(project)
       THEN /\ provisional_result' = Some(Failure(NoTasksMsg))
            /\ state' = "Error"
            /\ UNCHANGED <<current_date, person_days_remaining, run_pc, exc>>
       ELSE IF project = None
       THEN \* None.start_date
            /\ Raise("AttributeError")
            /\ UNCHANGED <<provisional_result, state, current_date,
                           person_days_remaining>>
       ELSE /\ current_date' = Some(project[1].start_date)
            /\ \E days \in probabilistic_estimated_project_person_days(project) :
                   person_days_remaining' = Some(days)
            /\ state' = "CalculatingWeeks"
            /\ UNCHANGED <<provisional_result, run_pc, exc>>
    /\ UNCHANGED <<project, remainder_days, working_days_left, result,
                   work_holidays, mc_vars, env_vars>>

WindowRaises(p, memo, ds) == \E d \in ds : HolidayRaises(p, memo, d)

\* IterationStateCalculatingWeeks, the capacity of the week that starts at
\* the cursor: maximum_weekly_days - vacation_days - holiday_days, and 0 when
\* that is negative.  In person-hours, as every amount of person-days.
person_days_this_week_unfloored(p, memo, this_date, vacation_days) ==
    max_person_days_per_week(p)
    - vacation_days * p.work_hours_per_day
    - person_days_lost_to_holidays_this_week(p, memo, this_date)
      * p.work_hours_per_day

probabilistic_person_days_this_week(p, memo, this_date, vacation_days) ==
    LET maximum_weekly_days == max_person_days_per_week(p)
        holiday_days ==
            person_days_lost_to_holidays_this_week(p, memo, this_date)
        difference == maximum_weekly_days
                      - vacation_days * p.work_hours_per_day
                      - holiday_days * p.work_hours_per_day
    IN  IF difference < 0 THEN 0 ELSE difference

week_suffices_reversed(remaining, capacity) ==
    remaining # None /\ remaining[1] >= capacity

week_suffices_strictly(remaining, capacity) ==
    remaining # None /\ remaining[1] < capacity

\* person_days_remaining is not None
\* and person_days_remaining <= probabilistic_person_days_this_week
week_suffices(remaining, capacity) ==
    remaining # None /\ remaining[1] <= capacity

next_week_of_work_days(this_date) ==
    IF this_date # None THEN Some(this_date[1] + 5) ELSE this_date

\* current_date + timedelta(weeks=1) if current_date is not None
\* else current_date
next_week(this_date) ==
    IF this_date # None THEN Some(this_date[1] + DAYS_IN_A_WEEK)
    ELSE this_date

CalculatingWeeksProcess ==
    /\ Stepping
    /\ state = "CalculatingWeeks"
    /\ IF current_date = None THEN TRUE ELSE current_date[1] <= MaxDate
    /\ IF project = None
       THEN /\ provisional_result' = Some(Failure(NoProjectMsg))
            /\ state' = "Error"
            /\ UNCHANGED <<current_date, person_days_remaining, remainder_days,
                           run_pc, exc, work_holidays>>
       ELSE \E vacation_days \in
                    probabilistic_weekly_person_days_lost_to_vacations(project) :
            LET p == project[1]
                window == IF current_date = None THEN {}
                          ELSE WeekWindow(current_date[1])
            IN
            IF WindowRaises(p, work_holidays, window)
            THEN /\ Raise("ValueError")
                 /\ UNCHANGED <<provisional_result, state, current_date,
                                person_days_remaining, remainder_days,
                                work_holidays>>
            ELSE
            LET person_days_this_week ==
                    probabilistic_person_days_this_week(p, work_holidays,
                                                        current_date,
                                                        vacation_days)
            IN
            /\ work_holidays' = MemoAfter(p, work_holidays, window)
            /\ IF week_suffices(person_days_remaining, person_days_this_week)
               THEN /\ remainder_days' = person_days_this_week
                    /\ state' = "CalculatingDays"
                    /\ UNCHANGED <<current_date, person_days_remaining>>
               ELSE /\ current_date' = next_week(current_date)
                    /\ person_days_remaining' =
                          IF person_days_remaining # None
                          THEN Some(person_days_remaining[1]
                                    - person_days_this_week)
                          ELSE person_days_remaining
                    /\ UNCHANGED <<remainder_days, state>>
            /\ UNCHANGED <<provisional_result, run_pc, exc>>
    /\ UNCHANGED <<project, working_days_left, result, mc_vars, env_vars>>

no_working_days_left_below_zero(left) == left[1] < 0

no_working_days_left_within_a_day(left) == left[1] < left[2]

\* working_days_left <= 0, on the fraction <<numerator, denominator>> whose
\* denominator, remainder_days, is above 0.
no_working_days_left(left) == left[1] <= 0

CalculatingDaysProcess ==
    /\ Stepping
    /\ state = "CalculatingDays"
    /\ IF project = None
       THEN /\ provisional_result' = Some(Failure(NoProjectMsg))
            /\ state' = "Error"
            /\ UNCHANGED <<current_date, person_days_remaining,
                           working_days_left, run_pc, exc, work_holidays>>
       ELSE IF current_date = None
       THEN /\ provisional_result' = Some(Failure(NoCurrentDateMsg))
            /\ state' = "Error"
            /\ UNCHANGED <<current_date, person_days_remaining,
                           working_days_left, run_pc, exc, work_holidays>>
       ELSE
       LET p == project[1]
           today == current_date[1]
           \* person_days_remaining or 0
           remaining == IF person_days_remaining = None THEN 0
                        ELSE person_days_remaining[1]
           \* is_holiday is called only on dates whose weekday is a work day
           counted == IF working_days_left # None THEN {}
                      ELSE {d \in WeekWindow(today) :
                                InSeq(weekday(d), p.weekly_work_days)}
           checked == IF InSeq(weekday(today), p.weekly_work_days)
                      THEN {today} ELSE {}
       IN
       /\ person_days_remaining' = Some(remaining)
       /\ IF WindowRaises(p, work_holidays, counted \cup checked)
          THEN /\ Raise("ValueError")
               /\ UNCHANGED <<provisional_result, state, current_date,
                              working_days_left, work_holidays>>
          ELSE IF working_days_left = None /\ remainder_days = 0
          THEN \* person_days_remaining / remainder_days
               /\ Raise("ZeroDivisionError")
               /\ work_holidays' = MemoAfter(p, work_holidays, counted)
               /\ UNCHANGED <<provisional_result, state, current_date,
                              working_days_left>>
          ELSE
          LET num_working_days ==
                  Cardinality(working_days_this_week(p, work_holidays, today))
              \* portion_of_week * num_working_days, as an exact fraction
              left == IF working_days_left # None THEN working_days_left[1]
                      ELSE <<remaining * num_working_days, remainder_days>>
          IN
          /\ work_holidays' = MemoAfter(p, work_holidays, counted \cup checked)
          /\ current_date' = Some(today + 1)
          /\ IF ~is_working_day(p, work_holidays, today)
             THEN /\ working_days_left' = Some(left)
                  /\ UNCHANGED state
             ELSE /\ working_days_left' = Some(<<left[1] - left[2], left[2]>>)
                  /\ state' = IF no_working_days_left(
                                     <<left[1] - left[2], left[2]>>)
                              THEN "Finalizing"
                              ELSE state
          /\ UNCHANGED <<provisional_result, run_pc, exc>>
    /\ UNCHANGED <<project, remainder_days, result, mc_vars, env_vars>>

FinalizingProcess ==
    /\ Stepping
    /\ state = "Finalizing"
    /\ IF project = None
       THEN /\ provisional_result' = Some(Failure(NoProjectMsg))
            /\ state' = "Error"
            /\ UNCHANGED <<current_date, run_pc, exc, work_holidays>>
       ELSE IF current_date = None
       THEN /\ provisional_result' = Some(Failure(NoCurrentDateMsg))
            /\ state' = "Error"
            /\ UNCHANGED <<current_date, run_pc, exc, work_holidays>>
       ELSE
       LET p == project[1]
           today == current_date[1]
           checked == IF InSeq(weekday(today), p.weekly_work_days)
                      THEN {today} ELSE {}
       IN
       IF WindowRaises(p, work_holidays, checked)
       THEN /\ Raise("ValueError")
            /\ UNCHANGED <<provisional_result, state, current_date,
                           work_holidays>>
       ELSE
       /\ work_holidays' = MemoAfter(p, work_holidays, checked)
       /\ IF ~is_working_day(p, work_holidays, today)
          THEN /\ current_date' = Some(today + 1)
               /\ UNCHANGED <<provisional_result, state>>
          ELSE /\ provisional_result' = Some(Success(today))
               /\ state' = "Successful"
               /\ UNCHANGED current_date
       /\ UNCHANGED <<run_pc, exc>>
    /\ UNCHANGED <<project, person_days_remaining, remainder_days,
                   working_days_left, result, mc_vars, env_vars>>

ErrorProcess_retrying ==
    /\ Stepping
    /\ state = "Error"
    /\ state' = "Uninitialized"
    /\ UNCHANGED <<project, result, person_days_remaining, remainder_days,
                   working_days_left, provisional_result, current_date, run_pc,
                   exc, work_holidays, mc_vars, env_vars>>

ErrorProcess ==
    /\ Stepping
    /\ state = "Error"
    /\ result' = IF provisional_result # None THEN provisional_result
                 ELSE Some(Failure(ErrorFallbackMsg))
    /\ UNCHANGED <<project, state, person_days_remaining, remainder_days,
                   working_days_left, provisional_result, current_date, run_pc,
                   exc, work_holidays, mc_vars, env_vars>>

SuccessfulProcess ==
    /\ Stepping
    /\ state = "Successful"
    /\ result' = IF provisional_result # None THEN provisional_result
                 ELSE Some(Failure(SuccessFallbackMsg))
    /\ UNCHANGED <<project, state, person_days_remaining, remainder_days,
                   working_days_left, provisional_result, current_date, run_pc,
                   exc, work_holidays, mc_vars, env_vars>>

\* IterationContext.process: delegate to the current state.
Process ==
    \/ UninitializedProcess
    \/ CalculatingWeeksProcess
    \/ CalculatingDaysProcess
    \/ FinalizingProcess
    \/ ErrorProcess
    \/ SuccessfulProcess

(***************************************************************************)
(* The projects the model runs on.  Every field passes the validators of   *)
(* project.py.                                                             *)
(***************************************************************************)
\* Task(optimistic=12, pessimistic=12, likely=12): the demand is exactly 12.
FixedTask == Task(12, 12, 12)
ZeroTask == Task(0, 0, 0)
SpreadTask == Task(1, 2, 3)

Projects ==
    [start_date : {0, 3, 14},
     developer_count : {1, 2},
     country_code : {None, Some("US"), Some("ZZ")},
     weeks_off_per_year : {0, 2},
     weekly_work_days : {<<0, 1, 2, 3, 4>>, <<0>>, <<2>>},
     work_hours_per_day : {1, 8},
     communication_penalty : {0, 1, 2, 4},
     tasks : {<<>>, <<FixedTask>>, <<ZeroTask>>, <<SpreadTask>>},
     task_groups : {<<>>, <<TaskGroup(<<>>)>>, <<TaskGroup(<<FixedTask>>)>>}]

\* IterationContext as the class body declares it.
FreshContext ==
    /\ state = "None"
    /\ person_days_remaining = None
    /\ remainder_days = 0
    /\ working_days_left = None
    /\ result = None
    /\ provisional_result = None
    /\ current_date = None
    /\ exc = None

NoMonteCarlo ==
    /\ mc_pc = "none"
    /\ iterations = 0
    /\ mc_started = 0
    /\ results = <<>>
    /\ events = <<>>
    /\ mc_return = None
    /\ mc_exc = None
    /\ observers = <<>>

\* Project as constructed: no call made on it yet.
NoCall == last_call = None

\* TaskGroup(name=...): tasks defaults to the empty list.
NoTasksInGroup == group = <<>>

\* Iteration(project): a fresh context holding the project.
Init ==
    /\ project \in {None} \cup {Some(p) : p \in Projects}
    /\ FreshContext
    /\ run_pc = "constructed"
    /\ work_holidays = <<>>
    /\ NoMonteCarlo
    /\ NoCall
    /\ NoTasksInGroup

Next == Run \/ Process

Spec == Init /\ [][Next]_vars

(***************************************************************************)
(* Calls of is_holiday on a Project, and assignments of its country_code   *)
(* (the model validates assignments; country_code has no validator).       *)
(***************************************************************************)
CountryCodes == {None, Some("US"), Some("DE"), Some("ZZ")}
HolidayDates == {0, 1, 19, 20}

\* project.is_holiday(this_date): what it returns or that it raised, and the
\* memo it leaves.
IsHolidayCall ==
    /\ mc_pc = "none" /\ run_pc = "none"
    /\ \E this_date \in HolidayDates :
           IF HolidayRaises(project[1], work_holidays, this_date)
           THEN /\ last_call' = Some([date |-> this_date,
                                      country_code |-> project[1].country_code,
                                      raised |-> TRUE,
                                      returned |-> FALSE])
                /\ UNCHANGED work_holidays
           ELSE /\ last_call' =
                       Some([date |-> this_date,
                             country_code |-> project[1].country_code,
                             raised |-> FALSE,
                             returned |-> is_holiday(project[1], work_holidays,
                                                     this_date)])
                /\ work_holidays' = MemoAfter(project[1], work_holidays,
                                              {this_date})
    /\ UNCHANGED <<project, ctx_vars, mc_vars, observers, group>>

\* project.country_code = code
SetCountryCode ==
    /\ mc_pc = "none" /\ run_pc = "none"
    /\ \E code \in CountryCodes :
           project' = Some([project[1] EXCEPT !.country_code = code])
    /\ UNCHANGED <<ctx_vars, work_holidays, mc_vars, env_vars>>

HolidayProjects ==
    {[p EXCEPT !.country_code = code] :
         p \in {q \in Projects :
                    /\ q.start_date = 0
                    /\ q.weeks_off_per_year = 0
                    /\ q.work_hours_per_day = 1
                    /\ q.weekly_work_days = <<0, 1, 2, 3, 4>>
                    /\ q.communication_penalty = 0
                    /\ q.tasks = <<FixedTask>>
                    /\ q.task_groups = <<>>},
         code \in CountryCodes}

InitHolidays ==
    /\ project \in {Some(p) : p \in HolidayProjects}
    /\ FreshContext
    /\ run_pc = "none"
    /\ work_holidays = <<>>
    /\ NoMonteCarlo
    /\ NoCall
    /\ NoTasksInGroup

NextHolidays == IsHolidayCall \/ SetCountryCode

SpecHolidays == InitHolidays /\ [][NextHolidays]_vars

(***************************************************************************)
(* Construction of a Project and assignments to its validated fields       *)
(* (project.py; Config.validate_assignment runs the validators on every    *)
(* assignment).  Each validator gives the ValueError it raises, if any.    *)
(***************************************************************************)
validate_developer_count_from_zero(value) ==
    IF value < 0 THEN Some("The developer count must be greater than 0")
    ELSE None

validate_developer_count(value) ==
    IF value < 1 THEN Some("The developer count must be greater than 0")
    ELSE None

validate_weeks_off_per_year(value) ==
    IF value < 0 THEN Some("The weeks off per year must be 0 or greater")
    ELSE IF value >= WEEKS_IN_A_YEAR
    THEN Some("The weeks off per year must be less than 52 weeks per year")
    ELSE None

validate_weekly_work_days(value) ==
    IF value = <<>> THEN Some("The weekly work days must be a non-empty list")
    ELSE IF \E i \in 1..Len(value) : value[i] \notin 0..(DAYS_IN_A_WEEK - 1)
    THEN Some("The weekly work days must be a list of integers between 0 and 6")
    ELSE None

validate_work_hours_per_day(value) ==
    IF value < 1 THEN Some("The work hours per day must be one or more")
    ELSE IF value >= 16 THEN Some("The work hours per day must be less than 16")
    ELSE None

\* value is in half-hours: 10 hours are 20 of them.
validate_communication_penalty(value) ==
    IF value < 0 THEN Some("The communication penalty must be greater than 0")
    ELSE IF value >= 2 * 10
    THEN Some("The communication penalty must be less than 10")
    ELSE None

ValidatedFields ==
    {"developer_count", "weeks_off_per_year", "weekly_work_days",
     "work_hours_per_day", "communication_penalty"}

validate(field, value) ==
    CASE field = "developer_count" -> validate_developer_count(value)
      [] field = "weeks_off_per_year" -> validate_weeks_off_per_year(value)
      [] field = "weekly_work_days" -> validate_weekly_work_days(value)
      [] field = "work_hours_per_day" -> validate_work_hours_per_day(value)
      [] field = "communication_penalty" -> validate_communication_penalty(value)

\* The values given to the constructor and assigned, the refused ones among
\* them.
FieldValues(field) ==
    CASE field = "developer_count" -> {0 - 1, 0, 1, 2}
      [] field = "weeks_off_per_year" -> {0 - 1, 0, 2, 51, 52}
      [] field = "weekly_work_days" ->
             {<<>>, <<0>>, <<0, 1, 2, 3, 4>>, <<6>>, <<7>>, <<0, 0 - 1>>}
      [] field = "work_hours_per_day" -> {0, 1, 8, 15, 16, 17}
      [] field = "communication_penalty" -> {0 - 1, 0, 1, 19, 20, 21}

\* Project(name=...): every field at its default.
DefaultProject ==
    [start_date |-> 0,
     developer_count |-> 1,
     country_code |-> Some("US"),
     weeks_off_per_year |-> 2,
     weekly_work_days |-> <<0, 1, 2, 3, 4>>,
     work_hours_per_day |-> 8,
     communication_penalty |-> 1,
     tasks |-> <<>>,
     task_groups |-> <<>>]

\* Project(name=..., developer_count=..., ...): made only when no validator
\* raises.
NewProject ==
    /\ mc_pc = "none" /\ run_pc = "none"
    /\ project = None
    /\ \E dc \in FieldValues("developer_count"),
          wo \in FieldValues("weeks_off_per_year"),
          wd \in FieldValues("weekly_work_days"),
          wh \in FieldValues("work_hours_per_day"),
          cp \in FieldValues("communication_penalty") :
           LET made == [DefaultProject EXCEPT !.developer_count = dc,
                                              !.weeks_off_per_year = wo,
                                              !.weekly_work_days = wd,
                                              !.work_hours_per_day = wh,
                                              !.communication_penalty = cp]
               raised == \E field \in ValidatedFields :
                             validate(field, made[field]) # None
           IN  /\ project' = IF raised THEN None ELSE Some(made)
               /\ last_call' = Some([op |-> "Project", raised |-> raised])
    /\ UNCHANGED <<ctx_vars, work_holidays, mc_vars, observers, group>>

\* project.<field> = value
AssignField ==
    /\ mc_pc = "none" /\ run_pc = "none"
    /\ project # None
    /\ \E field \in ValidatedFields :
           \E value \in FieldValues(field) :
               LET raised == validate(field, value) # None
               IN  /\ project' = IF raised THEN project
                                  ELSE Some([project[1] EXCEPT ![field] = value])
                   /\ last_call' = Some([op |-> "assign",
                                         field |-> field,
                                         value |-> value,
                                         before |-> project[1][field],
                                         raised |-> raised])
    /\ UNCHANGED <<ctx_vars, work_holidays, mc_vars, observers, group>>

InitProject ==
    /\ project = None
    /\ FreshContext
    /\ run_pc = "none"
    /\ work_holidays = <<>>
    /\ NoMonteCarlo
    /\ NoCall
    /\ NoTasksInGroup

NextProject == NewProject \/ AssignField

SpecProject == InitProject /\ [][NextProject]_vars

(***************************************************************************)
(* Task and TaskGroup on their own (task.py): Task(...) on any three       *)
(* estimates, and add_task on one TaskGroup.                               *)
(***************************************************************************)
Estimates == (0 - 1)..MaxEstimate

\* MaxTasks Task objects, each with its own id_.
TaskObjects ==
    {[id_ |-> i, optimistic |-> i, likely |-> i, pessimistic |-> i + 1] :
         i \in 1..MaxTasks}

\* Task(name=..., optimistic=o, likely=l, pessimistic=p)
NewTask ==
    /\ mc_pc = "none" /\ run_pc = "none"
    /\ \E o \in Estimates, l \in Estimates, p \in Estimates :
           LET error == ensure_estimates_are_sane(o, l, p)
           IN  last_call' = Some([op |-> "Task",
                                  optimistic |-> o,
                                  likely |-> l,
                                  pessimistic |-> p,
                                  raised |-> error # None,
                                  returned |-> IF error # None THEN None
                                               ELSE Some(Task(o, l, p))])
    /\ UNCHANGED <<project, ctx_vars, work_holidays, mc_vars, observers, group>>

\* task_group.add_task(task)
AddTask ==
    /\ mc_pc = "none" /\ run_pc = "none"
    /\ \E task \in TaskObjects :
           LET added == add_task(group, task)
           IN  /\ group' = added.tasks
               /\ last_call' = Some([op |-> "add_task",
                                     task |-> task,
                                     before |-> group,
                                     returned |-> added.returned])
    /\ UNCHANGED <<project, ctx_vars, work_holidays, mc_vars, observers>>

InitTasks ==
    /\ project = None
    /\ FreshContext
    /\ run_pc = "none"
    /\ work_holidays = <<>>
    /\ NoMonteCarlo
    /\ NoCall
    /\ NoTasksInGroup

NextTasks == NewTask \/ AddTask

SpecTasks == InitTasks /\ [][NextTasks]_vars

(***************************************************************************)
(* Several iterations on one Project in one process, one after the other,  *)
(* as a worker of the pool runs them: each is a new Iteration, the Project *)
(* and its holiday memo are the same object throughout.                    *)
(***************************************************************************)
\* _run_iteration: the result of the iteration before, if any, has been read;
\* Iteration(self.project) makes a new IterationContext.
NextIteration ==
    /\ mc_pc = "none"
    /\ run_pc = "none" \/ run_pc = "raised" \/ (run_pc = "running" /\ result # None)
    /\ mc_started < MaxIterations
    /\ mc_started' = mc_started + 1
    /\ run_pc' = "constructed"
    /\ state' = "None"
    /\ person_days_remaining' = None
    /\ remainder_days' = 0
    /\ working_days_left' = None
    /\ result' = None
    /\ provisional_result' = None
    /\ current_date' = None
    /\ exc' = None
    /\ UNCHANGED <<project, work_holidays, mc_pc, iterations, results, events,
                   mc_return, mc_exc, env_vars>>

IterationProjects ==
    {p \in Projects : p.work_hours_per_day = 1 /\ p.communication_penalty = 0}

InitIterations ==
    /\ project \in {Some(p) : p \in IterationProjects}
    /\ FreshContext
    /\ run_pc = "none"
    /\ work_holidays = <<>>
    /\ NoMonteCarlo
    /\ NoCall
    /\ NoTasksInGroup

NextIterations == NextIteration \/ Run \/ Process

SpecIterations == InitIterations /\ [][NextIterations]_vars

(***************************************************************************)
(* MonteCarlo (simulation/monte_carlo.py).                                 *)
(***************************************************************************)
Event(tag, data) == [tag |-> tag, data |-> data]

\* The buckets of _process_results: data[end_date] counts the success results
\* seen so far that ended on end_date.
RECURSIVE CountByEndDate_until_failure(_, _)
CountByEndDate_until_failure(rs, data) ==
    IF rs = <<>> THEN data
    ELSE LET r == Head(rs)
             end_date == r.attributes[1].end_date
         IN  IF r.status # "success" THEN data
             ELSE IF end_date \notin DOMAIN data
             THEN CountByEndDate_until_failure(Tail(rs), data @@ (end_date :> 1))
             ELSE CountByEndDate_until_failure(
                      Tail(rs), [data EXCEPT ![end_date] = data[end_date] + 1])

RECURSIVE CountByEndDate(_, _)
CountByEndDate(rs, data) ==
    IF rs = <<>> THEN data
    ELSE LET r == Head(rs)
             end_date == r.attributes[1].end_date
         IN  IF r.status # "success" THEN CountByEndDate(Tail(rs), data)
             ELSE IF end_date \notin DOMAIN data
             THEN CountByEndDate(Tail(rs), data @@ (end_date :> 1))
             ELSE CountByEndDate(Tail(rs),
                                 [data EXCEPT ![end_date] = data[end_date] + 1])

\* sorted(data.items()): the (end_date, count) pairs, ascending.
RECURSIVE SortedItems(_)
SortedItems(data) ==
    IF DOMAIN data = {} THEN <<>>
    ELSE LET least == CHOOSE d \in DOMAIN data : \A e \in DOMAIN data : d <= e
         IN  <<<<least, data[least]>>>> \o
             SortedItems([d \in DOMAIN data \ {least} |-> data[d]])

\* probability = cumulative_count / self.iterations, as an exact fraction.
MonteCarloOutcome_of_count(end_date, count, cumulative_count, n) ==
    [end_date |-> end_date, total |-> count, probability |-> <<count, n>>]

MonteCarloOutcome(end_date, count, cumulative_count, n) ==
    [end_date |-> end_date, total |-> count,
     probability |-> <<cumulative_count, n>>]

\* The outcomes dict, as the sequence of its entries in insertion order.
RECURSIVE MakeOutcomes(_, _, _)
MakeOutcomes(items, cumulative_count, n) ==
    IF items = <<>> THEN <<>>
    ELSE LET end_date == Head(items)[1]
             count == Head(items)[2]
         IN  <<MonteCarloOutcome(end_date, count, cumulative_count + count, n)>>
             \o MakeOutcomes(Tail(items), cumulative_count + count, n)

SuccessesOf(rs) == SelectSeq(rs, LAMBDA r : r.status = "success")

ResultProcessedEvent(r) == Event("monte_carlo_result_prcessed", Some(r))
OutcomeCreatedEvent(o) == Event("monte_carlo_outcome_created", Some(o))

process_results_dividing_first(rs, n) ==
    LET data == CountByEndDate(rs, <<>>)
        items == SortedItems(data)
        raised == n = 0
        outcomes == IF raised THEN <<>> ELSE MakeOutcomes(items, 0, n)
    IN  [raised |-> raised,
         outcomes |-> outcomes,
         events |->
             <<Event("monte_carlo_processing_start", None)>>
             \o [i \in 1..Len(SuccessesOf(rs)) |->
                    ResultProcessedEvent(SuccessesOf(rs)[i])]
             \o <<Event("monte_carlo_processing_end", None),
                  Event("monte_carlo_outcomes_start", None)>>
             \o [i \in 1..Len(outcomes) |-> OutcomeCreatedEvent(outcomes[i])]
             \o IF raised THEN <<>>
                ELSE <<Event("monte_carlo_outcomes_end", None)>>]

\* _process_results(results) on a MonteCarlo with self.iterations = n: the
\* mapping it returns, the events it emits, and whether the division by
\* self.iterations raised ZeroDivisionError.
process_results(rs, n) ==
    LET data == CountByEndDate(rs, <<>>)
        items == SortedItems(data)
        raised == items # <<>> /\ n = 0
        outcomes == IF raised THEN <<>> ELSE MakeOutcomes(items, 0, n)
    IN  [raised |-> raised,
         outcomes |-> outcomes,
         events |->
             <<Event("monte_carlo_processing_start", None)>>
             \o [i \in 1..Len(SuccessesOf(rs)) |->
                    ResultProcessedEvent(SuccessesOf(rs)[i])]
             \o <<Event("monte_carlo_processing_end", None),
                  Event("monte_carlo_outcomes_start", None)>>
             \o [i \in 1..Len(outcomes) |-> OutcomeCreatedEvent(outcomes[i])]
             \o IF raised THEN <<>>
                ELSE <<Event("monte_carlo_outcomes_end", None)>>]

(***************************************************************************)
(* Observers (observer.py).  An observer is what its update() does with    *)
(* the event it is handed: nothing but read it ("passive", as the          *)
(* ProgressIndicator of examples/load_from_csv.py), assign to the object   *)
(* that the event data carries ("tamper"), or raise ("raise").             *)
(***************************************************************************)
ObserverKinds == {"passive", "tamper", "raise"}

\* observer.update(event) on a monte_carlo_outcome_created event: the outcome
\* object afterwards.  The event data holds the very object that
\* _process_results stored in the mapping it returns.
update(observer, outcome) ==
    IF observer = "tamper" THEN [outcome EXCEPT !.total = 0] ELSE outcome

\* notify_observers: every observer's update, in registration order.
RECURSIVE notify_observers(_, _)
notify_observers(obs, outcome) ==
    IF obs = <<>> THEN outcome
    ELSE notify_observers(Tail(obs), update(Head(obs), outcome))

\* notify_observers lets the exception of an update() through.
NotifyRaises(obs) == \E i \in DOMAIN obs : obs[i] = "raise"

\* notify_observers: the observers whose update was called, in order; the
\* loop ends at the first update that raises.
RECURSIVE UpdatedByNotify(_)
UpdatedByNotify(obs) ==
    IF obs = <<>> THEN <<>>
    ELSE IF Head(obs) = "raise" THEN <<Head(obs)>>
    ELSE <<Head(obs)>> \o UpdatedByNotify(Tail(obs))

\* register_observer: self._observers.append(observer)
register_observer(obs, observer) == Append(obs, observer)

\* self._observers.remove(observer) raises ValueError when it is not there
UnregisterRaises(obs, observer) == observer \notin Range(obs)

unregister_observer_everywhere(obs, observer) ==
    SelectSeq(obs, LAMBDA o : o # observer)

\* unregister_observer: self._observers.remove(observer) takes the first
\* entry equal to observer out of the list.
unregister_observer(obs, observer) ==
    LET first == CHOOSE i \in 1..Len(obs) :
                     /\ obs[i] = observer
                     /\ \A j \in 1..(i - 1) : obs[j] # observer
    IN  SubSeq(obs, 1, first - 1) \o SubSeq(obs, first + 1, Len(obs))

\* _process_results(results) with the observers obs registered: the exception
\* that ends it, if any, the mapping it returns and the events it emits.
process_results_observed(rs, n, obs) ==
    LET processed == process_results(rs, n)
    IN  IF NotifyRaises(obs)
        THEN [exc |-> Some("ObserverException"),
              outcomes |-> <<>>,
              events |-> <<processed.events[1]>>]
        ELSE [exc |-> IF processed.raised THEN Some("ZeroDivisionError")
                      ELSE None,
              outcomes |-> [i \in DOMAIN processed.outcomes |->
                               notify_observers(obs, processed.outcomes[i])],
              events |-> processed.events]

\* The names bound in the body of the loop of MonteCarlo.run,
\*     for _, result in enumerate(pool.imap_unordered(...)):
\* and the name the iteration event reads for its "number".
LoopTargets == {"_", "result"}
NumberName == "i"
NameRaises(name) == name \notin LoopTargets \cup {"self", "results", "pool"}

\* if self.project and self.project.max_person_days_per_week <= 0
preflight_fails_strict(proj) ==
    proj # None /\ max_person_days_per_week(proj[1]) < 0

preflight_fails(proj) ==
    proj # None /\ max_person_days_per_week(proj[1]) <= 0

\* run(), up to the pool: the start event and the preflight check.
MonteCarloRun ==
    /\ mc_pc = "constructed"
    /\ IF NotifyRaises(observers)
       THEN /\ events' = events \o <<Event("monte_carlo_start", None)>>
            /\ mc_exc' = Some("ObserverException")
            /\ mc_pc' = "raised"
       ELSE IF preflight_fails(project)
       THEN /\ events' = events \o <<Event("monte_carlo_start", None),
                                     Event("monte_carlo_error", None)>>
            /\ mc_exc' = Some("RuntimeError")
            /\ mc_pc' = "raised"
       ELSE /\ events' = events \o <<Event("monte_carlo_start", None)>>
            /\ mc_pc' = "pool"
            /\ UNCHANGED mc_exc
    /\ UNCHANGED <<project, ctx_vars, work_holidays, env_vars, iterations,
                   mc_started,
                   results, mc_return>>

\* _run_iteration in a worker of the pool: Iteration(self.project); the
\* worker then takes the steps of Run and Process.  Iterations share nothing
\* but the project, so the workers of the pool are taken one at a time: the
\* results can still reach run() in any order of values.
RunIteration ==
    /\ mc_pc = "pool"
    /\ mc_started < iterations
    /\ run_pc = "none"
    /\ run_pc' = "constructed"
    /\ mc_started' = mc_started + 1
    /\ UNCHANGED <<project, state, person_days_remaining, remainder_days,
                   working_days_left, result, provisional_result, current_date,
                   exc, work_holidays, mc_pc, iterations, results, events,
                   mc_return, mc_exc, env_vars>>

\* One round of the loop over imap_unordered: the next finished iteration's
\* result (or the exception that left it) reaches run(), which appends it and
\* builds the monte_carlo_run_iteration event.
CollectResult ==
    /\ mc_pc = "pool"
    /\ run_pc \in {"running", "raised"}
    /\ result # None \/ run_pc = "raised"
    /\ IF run_pc = "raised"
       THEN /\ mc_exc' = exc
            /\ mc_pc' = "raised"
            /\ UNCHANGED <<results, events>>
       ELSE /\ results' = Append(results, result[1])
            /\ IF NameRaises(NumberName)
               THEN /\ mc_exc' = Some("NameError")
                    /\ mc_pc' = "raised"
                    /\ UNCHANGED events
               ELSE /\ events' = Append(events,
                                   Event("monte_carlo_run_iteration",
                                         Some([number |-> Len(results),
                                               result |-> result[1]])))
                    /\ UNCHANGED <<mc_pc, mc_exc>>
    \* the worker's Iteration is gone once its result was read
    /\ run_pc' = "none"
    /\ state' = "None"
    /\ person_days_remaining' = None
    /\ remainder_days' = 0
    /\ working_days_left' = None
    /\ result' = None
    /\ provisional_result' = None
    /\ current_date' = None
    /\ exc' = None
    /\ UNCHANGED <<project, work_holidays, iterations, mc_started, mc_return,
                   env_vars>>

\* run(), after the pool: the end event, then return self._process_results(results).
MonteCarloFinish ==
    /\ mc_pc = "pool"
    /\ Len(results) = iterations
    /\ LET processed == process_results_observed(results, iterations, observers)
       IN  /\ events' = events \o <<Event("monte_carlo_simulation_end", None)>>
                               \o processed.events
           /\ IF processed.exc # None
              THEN /\ mc_exc' = processed.exc
                   /\ mc_pc' = "raised"
                   /\ UNCHANGED mc_return
              ELSE /\ mc_return' = Some(processed.outcomes)
                   /\ mc_pc' = "returned"
                   /\ UNCHANGED mc_exc
    /\ UNCHANGED <<project, ctx_vars, work_holidays, env_vars, iterations,
                   mc_started,
                   results>>

\* MonteCarlo(project, iterations) on a few of the projects.
MonteCarloProjects ==
    {p \in Projects : /\ p.start_date = 0
                      /\ p.weeks_off_per_year = 0
                      /\ p.work_hours_per_day = 1}

InitMonteCarlo ==
    /\ project \in {None} \cup {Some(p) : p \in MonteCarloProjects}
    /\ FreshContext
    /\ run_pc = "none"
    /\ work_holidays = <<>>
    /\ mc_pc = "constructed"
    /\ iterations \in 0..MaxIterations
    /\ mc_started = 0
    /\ results = <<>>
    /\ events = <<>>
    /\ mc_return = None
    /\ mc_exc = None
    /\ observers = <<>>
    /\ NoCall
    /\ NoTasksInGroup

NextMonteCarlo ==
    \/ MonteCarloRun
    \/ RunIteration
    \/ Run
    \/ Process
    \/ CollectResult
    \/ MonteCarloFinish

SpecMonteCarlo == InitMonteCarlo /\ [][NextMonteCarlo]_vars

(***************************************************************************)
(* _process_results called on the list of results of a run: every list of  *)
(* at most MaxIterations results, of a MonteCarlo whose iteration count is *)
(* the length of the list.                                                 *)
(***************************************************************************)
EndDates == {1, 2, 5}
IterationResults == {Success(d) : d \in EndDates} \cup {Failure(NoTasksMsg)}

RECURSIVE SeqsUpTo(_, _)
SeqsUpTo(S, n) ==
    IF n = 0 THEN {<<>>}
    ELSE LET shorter == SeqsUpTo(S, n - 1)
         IN  shorter \cup {Append(sq, x) : sq \in shorter, x \in S}

ProcessResultsCall ==
    /\ mc_pc = "aggregating"
    /\ LET processed == process_results_observed(results, iterations, observers)
       IN  /\ events' = events \o processed.events
           /\ IF processed.exc # None
              THEN /\ mc_exc' = processed.exc
                   /\ mc_pc' = "raised"
                   /\ UNCHANGED mc_return
              ELSE /\ mc_return' = Some(processed.outcomes)
                   /\ mc_pc' = "returned"
                   /\ UNCHANGED mc_exc
    /\ UNCHANGED <<project, ctx_vars, work_holidays, env_vars, iterations,
                   mc_started,
                   results>>

InitAggregation ==
    /\ project = None
    /\ FreshContext
    /\ run_pc = "none"
    /\ work_holidays = <<>>
    /\ mc_pc = "aggregating"
    /\ results \in SeqsUpTo(IterationResults, MaxIterations)
    /\ iterations = Len(results)
    /\ mc_started = iterations
    /\ events = <<>>
    /\ mc_return = None
    /\ mc_exc = None
    /\ observers = <<>>
    /\ NoCall
    /\ NoTasksInGroup

NextAggregation == ProcessResultsCall

SpecAggregation == InitAggregation /\ [][NextAggregation]_vars

(***************************************************************************)
(* The same call on a MonteCarlo that observers were registered with.      *)
(***************************************************************************)
\* register_observer(observer), before the call.
RegisterObserver ==
    /\ mc_pc = "aggregating"
    /\ Len(observers) < MaxObservers
    /\ \E observer \in ObserverKinds :
           /\ observers' = register_observer(observers, observer)
           /\ last_call' = Some([op |-> "register_observer",
                                 observer |-> observer,
                                 before |-> observers,
                                 raised |-> FALSE])
    /\ UNCHANGED <<project, ctx_vars, work_holidays, mc_vars, group>>

InitObservers == InitAggregation

NextObservers == RegisterObserver \/ ProcessResultsCall

SpecObservers == InitObservers /\ [][NextObservers]_vars

(***************************************************************************)
(* An Observable on its own (observer.py): observers come and go, and      *)
(* events are notified in between.                                         *)
(***************************************************************************)
\* unregister_observer(observer)
UnregisterObserver ==
    /\ mc_pc = "aggregating"
    /\ \E observer \in ObserverKinds :
           LET raised == UnregisterRaises(observers, observer)
           IN  /\ observers' = IF raised THEN observers
                                ELSE unregister_observer(observers, observer)
               /\ last_call' = Some([op |-> "unregister_observer",
                                     observer |-> observer,
                                     before |-> observers,
                                     raised |-> raised])
    /\ UNCHANGED <<project, ctx_vars, work_holidays, mc_vars, group>>

\* notify_observers(event)
NotifyObservers ==
    /\ mc_pc = "aggregating"
    /\ last_call' = Some([op |-> "notify_observers",
                          updated |-> UpdatedByNotify(observers),
                          raised |-> NotifyRaises(observers)])
    /\ UNCHANGED <<project, ctx_vars, work_holidays, mc_vars, observers, group>>

InitObservable == InitAggregation /\ results = <<>>

NextObservable == RegisterObserver \/ UnregisterObserver \/ NotifyObservers

SpecObservable == InitObservable /\ [][NextObservable]_vars

(***************************************************************************)
(* A context stepped by its caller, as the tests of the states do:         *)
(* Iteration(project), assignments to the fields of iteration.context,     *)
(* iteration.context.transition_to(<state>()), then context.process().     *)
(***************************************************************************)
StateNames ==
    {"Uninitialized", "CalculatingWeeks", "CalculatingDays", "Finalizing",
     "Successful", "Error"}

DirectDates == {None, Some(0), Some(3)}
DirectPersonDays == {None, Some(0), Some(5)}
DirectRemainderDays == {0, 5}

DirectProjects ==
    {p \in Projects :
         /\ p.start_date = 0
         /\ p.developer_count = 1
         /\ p.country_code \in {None, Some("US")}
         /\ p.weeks_off_per_year = 0
         /\ p.weekly_work_days = <<0, 1, 2, 3, 4>>
         /\ p.work_hours_per_day = 1
         /\ p.communication_penalty = 0
         /\ p.tasks = <<FixedTask>>
         /\ p.task_groups = <<>>}

\* The caller's assignments and its transition_to: the context gets the state
\* and the caller steps it from there.
TransitionTo ==
    /\ run_pc = "constructed"
    /\ \E st \in StateNames, d \in DirectDates, days \in DirectPersonDays,
          remainder \in DirectRemainderDays :
           /\ state' = st
           /\ current_date' = d
           /\ person_days_remaining' = days
           /\ remainder_days' = remainder
    /\ run_pc' = "running"
    /\ UNCHANGED <<project, working_days_left, result, provisional_result,
                   exc, work_holidays, mc_vars, env_vars>>

InitDirect ==
    /\ project \in {None} \cup {Some(p) : p \in DirectProjects}
    /\ FreshContext
    /\ run_pc = "constructed"
    /\ work_holidays = <<>>
    /\ NoMonteCarlo
    /\ NoCall
    /\ NoTasksInGroup

NextDirect == TransitionTo \/ Process

SpecDirect == InitDirect /\ [][NextDirect]_vars

(***************************************************************************)
(* Properties of Iteration.run (checked under Spec).                       *)
(***************************************************************************)
AllTasks(p) == GroupTasks(p.task_groups) \o p.tasks

\* Iteration.run has left its loop: a result is set, or an exception left it.
RunStopped == run_pc = "raised" \/ (run_pc = "running" /\ result # None)

CalendarKnown(p) ==
    p.country_code = None \/ p.country_code[1] \in SupportedCountries

OnProjectCalendar(p, d) ==
    /\ p.country_code # None
    /\ d \in country_holidays(p.country_code[1], year(d))

\* C1 (as claimed): on a project with at least one task and
\* max_person_days_per_week > 0 (here, moreover, one whose country code the
\* holiday calendar knows), Iteration.run stops only in a terminal state with
\* a result set.
C1_RunEndsWithResult ==
    (/\ project # None
     /\ AllTasks(project[1]) # <<>>
     /\ max_person_days_per_week(project[1]) > 0
     /\ CalendarKnown(project[1])
     /\ RunStopped)
    => (result # None /\ state \in {"Successful", "Error"})

\* C2: every success result (provisional or final) of an iteration has an
\* end_date whose weekday is in weekly_work_days and which is not a holiday of
\* the project's calendar, and the bucket that aggregation makes of it is keyed
\* by that date.
C2_EndDateIsWorkingDay ==
    \A r \in {x \in Range(result) \cup Range(provisional_result) :
                  x.status = "success"} :
        LET d == r.attributes[1].end_date
            p == project[1]
        IN  /\ InSeq(weekday(d), p.weekly_work_days)
            /\ ~OnProjectCalendar(p, d)
            /\ \A i \in DOMAIN process_results(<<r>>, 1).outcomes :
                   process_results(<<r>>, 1).outcomes[i].end_date = d

\* C2 witness: a success result whose end_date follows a holiday that
\* Finalizing stepped over.
C2_Witness ==
    /\ result # None
    /\ result[1].status = "success"
    /\ OnProjectCalendar(project[1], result[1].attributes[1].end_date - 1)

\* C3: an iteration with no project never samples a demand nor sets the
\* cursor, raises nothing, keeps stepping until it has a result, and its result
\* is the failure "No project was provided." set in the Error state.
C3_NoProjectFails ==
    project = None =>
        /\ person_days_remaining = None
        /\ current_date = None
        /\ exc = None
        /\ state \in {"None", "Uninitialized", "Error"}
        /\ result # None => (result[1] = Failure(NoProjectMsg) /\ state = "Error")
        /\ result = None => ENABLED Next

C3_Witness ==
    project = None /\ state = "Error" /\ result = Some(Failure(NoProjectMsg))

\* C4: an iteration on a project with zero tasks and zero task groups raises
\* nothing, keeps stepping until it has a result, and its result is the
\* failure "No tasks were present in the project." set in the Error state.
C4_NoTasksFails ==
    (project # None /\ project[1].tasks = <<>> /\ project[1].task_groups = <<>>)
    => /\ exc = None
       /\ state \in {"None", "Uninitialized", "Error"}
       /\ result # None => (result[1] = Failure(NoTasksMsg) /\ state = "Error")
       /\ result = None => ENABLED Next

C4_Witness ==
    /\ project # None
    /\ project[1].tasks = <<>>
    /\ project[1].task_groups = <<>>
    /\ state = "Error"
    /\ result = Some(Failure(NoTasksMsg))

\* C5 (as claimed): a project with no direct task whose task groups are all
\* empty is rejected: the iteration never gets past Uninitialized but to Error,
\* and its result is the failure "No tasks were present in the project.".
C5_EmptyGroupsRejected ==
    (project # None /\ AllTasks(project[1]) = <<>>)
    => /\ state \in {"None", "Uninitialized", "Error"}
       /\ result # None => result[1] = Failure(NoTasksMsg)

\* The deterministic scenario of test_calculating_days: start 2020-01-01,
\* Monday to Friday, no vacation, the US calendar (holidays on 2020-01-01 and
\* 2020-01-20) and one task whose demand is exactly 12 person-days.
TwelveDaysFromNewYear(p) ==
    /\ p.start_date = 0
    /\ p.weekly_work_days = <<0, 1, 2, 3, 4>>
    /\ p.weeks_off_per_year = 0
    /\ p.country_code = Some("US")
    /\ {d \in 0..MaxDate : OnProjectCalendar(p, d)} = {0, 19}
    /\ AllTasks(p) = <<FixedTask>>
    /\ SumOfDraws(AllTasks(p), 1) = {12}

\* C13: in the scenario with 1 developer, Iteration.run raises nothing, keeps
\* stepping until it has a result, and every result it makes (provisional or
\* final) is a success whose end_date is 2020-01-21.
C13_OneDeveloperEndsJanuary21 ==
    (/\ project # None
     /\ TwelveDaysFromNewYear(project[1])
     /\ project[1].developer_count = 1)
    => /\ exc = None
       /\ result = None => ENABLED Next
       /\ \A r \in Range(result) \cup Range(provisional_result) :
              /\ r.status = "success"
              /\ r.attributes[1].end_date = 20

C13_Witness ==
    /\ project # None
    /\ TwelveDaysFromNewYear(project[1])
    /\ project[1].developer_count = 1
    /\ state = "Successful"
    /\ result # None
    /\ result[1].attributes[1].end_date = 20

\* C14: in the scenario with 2 developers and communication_penalty 0,
\* Iteration.run raises nothing, keeps stepping until it has a result, and
\* every result it makes (provisional or final) is a success whose end_date is
\* 2020-01-10.
C14_TwoDevelopersEndJanuary10 ==
    (/\ project # None
     /\ TwelveDaysFromNewYear(project[1])
     /\ project[1].developer_count = 2
     /\ project[1].communication_penalty = 0)
    => /\ exc = None
       /\ result = None => ENABLED Next
       /\ \A r \in Range(result) \cup Range(provisional_result) :
              /\ r.status = "success"
              /\ r.attributes[1].end_date = 9

C14_Witness ==
    /\ project # None
    /\ TwelveDaysFromNewYear(project[1])
    /\ project[1].developer_count = 2
    /\ project[1].communication_penalty = 0
    /\ state = "Successful"
    /\ result # None
    /\ result[1].attributes[1].end_date = 9

\* C12 (as claimed): on a project that passed validation (here, moreover, one
\* whose country code the holiday calendar knows), whatever the draws, no
\* exception leaves Iteration.run: when run stops, a result with status
\* success or failure is set.
C12_RunNeverRaises ==
    (project # None /\ CalendarKnown(project[1]))
    => /\ exc = None
       /\ run_pc # "raised"
       /\ RunStopped => (/\ result # None
                         /\ result[1].status \in {"success", "failure"})

\* C20: on a project whose country code is absent or known,
\* person_days_lost_to_holidays_this_week gives 0 when it is given no start
\* date, and, given the cursor date, developer_count times the number of
\* holidays of the project's calendar among the cursor date and the 6 days
\* after it.
C20_HolidayLossPerDeveloper ==
    (project # None /\ CalendarKnown(project[1]))
    => /\ person_days_lost_to_holidays_this_week(project[1], work_holidays,
                                                 None) = 0
       /\ current_date # None =>
              person_days_lost_to_holidays_this_week(project[1], work_holidays,
                                                     current_date)
              = project[1].developer_count
                * Cardinality({d \in current_date[1]..(current_date[1] + 6) :
                                   OnProjectCalendar(project[1], d)})

\* C20 witness: CalculatingWeeks is at the week of 2020-01-15, which holds one
\* holiday, on a project of 2 developers: 2 person-days are lost.
C20_Witness ==
    /\ project # None
    /\ CalendarKnown(project[1])
    /\ project[1].developer_count = 2
    /\ state = "CalculatingWeeks"
    /\ current_date = Some(14)
    /\ person_days_lost_to_holidays_this_week(project[1], work_holidays,
                                              current_date) = 2

MonteCarloEnded == mc_pc \in {"returned", "raised"}

\* an exception that left an iteration, as opposed to one of run() itself
IterationRaised ==
    mc_exc \in {Some("ValueError"), Some("ZeroDivisionError"),
                Some("AttributeError")}

AllSucceeded == \A i \in DOMAIN results : results[i].status = "success"

RECURSIVE SumOfTotals(_)
SumOfTotals(outcomes) ==
    IF outcomes = <<>> THEN 0
    ELSE Head(outcomes).total + SumOfTotals(Tail(outcomes))

\* C6: on a project whose max_person_days_per_week is <= 0, run() starts no
\* iteration, collects no result and returns nothing, whatever the iteration
\* count; it ends by raising RuntimeError.
C6_PreflightRaises ==
    (project # None /\ max_person_days_per_week(project[1]) <= 0)
    => /\ mc_pc \in {"constructed", "raised"}
       /\ mc_started = 0
       /\ run_pc = "none"
       /\ results = <<>>
       /\ mc_return = None
       /\ mc_pc = "raised" => mc_exc = Some("RuntimeError")

C6_Witness ==
    /\ mc_pc = "raised"
    /\ mc_exc = Some("RuntimeError")
    /\ iterations > 0
    /\ max_person_days_per_week(project[1]) = 0

\* C7 (as claimed): a run of N iterations that passed the preflight and in
\* which no iteration failed or raised ends by returning a mapping, after
\* exactly N iterations were started and N results collected, and the totals
\* of the mapping sum to N.
C7_TotalsSumToIterations ==
    (/\ MonteCarloEnded
     /\ mc_exc # Some("RuntimeError")
     /\ ~IterationRaised
     /\ AllSucceeded)
    => /\ mc_pc = "returned"
       /\ mc_started = iterations
       /\ Len(results) = iterations
       /\ SumOfTotals(mc_return[1]) = iterations

\* C9 (as claimed): a run of N >= 1 iterations that passed the preflight and
\* in which no iteration failed or raised ends by returning a mapping whose
\* outcomes are in ascending end-date order, with strictly increasing
\* probability, the last probability being 1.0.
C9_ProbabilitiesReachOne ==
    (/\ MonteCarloEnded
     /\ mc_exc # Some("RuntimeError")
     /\ ~IterationRaised
     /\ AllSucceeded
     /\ iterations >= 1)
    => /\ mc_pc = "returned"
       /\ mc_return[1] # <<>>
       /\ \A i \in 1..(Len(mc_return[1]) - 1) :
              /\ mc_return[1][i].end_date < mc_return[1][i + 1].end_date
              /\ mc_return[1][i].probability[1] * mc_return[1][i + 1].probability[2]
                 < mc_return[1][i + 1].probability[1] * mc_return[1][i].probability[2]
       /\ LET last == mc_return[1][Len(mc_return[1])]
          IN  last.probability[1] = last.probability[2]

\* C10 (as claimed): a run that passed the preflight and in which an iteration
\* ended in failure (none raised) still ends by returning a mapping; the
\* mapping has one bucket per end_date of a success result, none for the
\* failures, and every probability is over the requested iteration count.
C10_FailureDoesNotAbort ==
    (/\ MonteCarloEnded
     /\ mc_exc # Some("RuntimeError")
     /\ ~IterationRaised
     /\ \E i \in DOMAIN results : results[i].status = "failure")
    => /\ mc_pc = "returned"
       /\ Len(mc_return[1]) =
              Cardinality({results[i].attributes[1].end_date :
                               i \in {j \in DOMAIN results :
                                          results[j].status = "success"}})
       /\ \A k \in DOMAIN mc_return[1] :
              mc_return[1][k].probability[2] = iterations

\* the events with the given tag that were passed to notify_observers
EventsTagged(tag) == SelectSeq(events, LAMBDA e : e.tag = tag)

\* C16 (as claimed): a run of N >= 1 iterations that passed the preflight and
\* in which no iteration raised ends by returning a mapping, after it emitted
\* exactly one monte_carlo_run_iteration event per collected result, N in all,
\* the k-th carrying its index and the k-th result collected.
C16_OneEventPerIteration ==
    (/\ MonteCarloEnded
     /\ mc_exc # Some("RuntimeError")
     /\ ~IterationRaised
     /\ iterations >= 1)
    => /\ mc_pc = "returned"
       /\ Len(results) = iterations
       /\ Len(EventsTagged("monte_carlo_run_iteration")) = iterations
       /\ \A k \in 1..iterations :
              EventsTagged("monte_carlo_run_iteration")[k].data =
                  Some([number |-> k - 1, result |-> results[k]])

\* the tags of the lifecycle events emitted so far, in order (the events of
\* the single results and outcomes of aggregation left out)
LifecycleTags ==
    LET lifecycle == SelectSeq(events, LAMBDA e :
                         e.tag \notin {"monte_carlo_result_prcessed",
                                       "monte_carlo_outcome_created"})
    IN  [k \in DOMAIN lifecycle |-> lifecycle[k].tag]

\* C17 (as claimed): aggregation never starts before all the requested
\* results were collected, and a run that passed the preflight and in which no
\* iteration raised ends having emitted, in this order: the start event, one
\* event per iteration, the simulation end event, then the start and end
\* events of the two phases of aggregation.
C17_LifecycleOrder ==
    /\ EventsTagged("monte_carlo_processing_start") # <<>>
           => Len(results) = iterations
    /\ (/\ MonteCarloEnded
        /\ mc_exc # Some("RuntimeError")
        /\ ~IterationRaised)
       => LifecycleTags =
              <<"monte_carlo_start">>
              \o [k \in 1..iterations |-> "monte_carlo_run_iteration"]
              \o <<"monte_carlo_simulation_end",
                   "monte_carlo_processing_start",
                   "monte_carlo_processing_end",
                   "monte_carlo_outcomes_start",
                   "monte_carlo_outcomes_end">>

(***************************************************************************)
(* Properties of _process_results (checked under SpecAggregation).         *)
(***************************************************************************)
SuccessIndexes == {i \in DOMAIN results : results[i].status = "success"}

EndDateOf(i) == results[i].attributes[1].end_date

\* C8: the mapping that aggregation returns has exactly one entry per distinct
\* end_date d of a success result and no other entry; its total is the number
\* of success results that ended on d and its probability is the number of
\* success results that ended on or before d, over the iteration count.
C8_AggregationCounts ==
    mc_pc = "returned" =>
        LET outcomes == mc_return[1]
        IN  /\ {outcomes[k].end_date : k \in DOMAIN outcomes}
               = {EndDateOf(i) : i \in SuccessIndexes}
            /\ \A k, m \in DOMAIN outcomes :
                   outcomes[k].end_date = outcomes[m].end_date => k = m
            /\ \A k \in DOMAIN outcomes :
                   /\ outcomes[k].total =
                          Cardinality({i \in SuccessIndexes :
                                           EndDateOf(i) = outcomes[k].end_date})
                   /\ outcomes[k].probability =
                          <<Cardinality({i \in SuccessIndexes :
                                             EndDateOf(i) <= outcomes[k].end_date}),
                            iterations>>

\* C8 witness: aggregation returned two buckets or more, one of them holding
\* several results, from a list with results that arrived out of date order.
C8_Witness ==
    /\ mc_pc = "returned"
    /\ Len(mc_return[1]) >= 2
    /\ \E k \in DOMAIN mc_return[1] : mc_return[1][k].total >= 2
    /\ \E i \in SuccessIndexes : \E j \in SuccessIndexes :
           i < j /\ EndDateOf(i) > EndDateOf(j)

\* The orders in which the results of sq can reach run(): imap_unordered
\* yields them as the workers finish.
Arrivals(sq) ==
    {[i \in 1..Len(sq) |-> sq[f[i]]] :
         f \in {g \in [1..Len(sq) -> 1..Len(sq)] :
                    \A i, j \in 1..Len(sq) : g[i] = g[j] => i = j}}

\* C11: the mapping that aggregation returns does not depend on the order in
\* which the iterations completed: had the same results arrived in any other
\* order, aggregation would have returned the same dates with the same totals
\* and probabilities, and ended the same way.
C11_ArrivalOrderIrrelevant ==
    mc_pc \in {"returned", "raised"} =>
        \A other \in Arrivals(results) :
            LET processed == process_results(other, iterations)
            IN  /\ processed.raised = (mc_pc = "raised")
                /\ mc_pc = "returned" => processed.outcomes = mc_return[1]

\* C11 witness: aggregation returned from three results that arrived neither
\* in date order nor with the failure last.
C11_Witness ==
    /\ mc_pc = "returned"
    /\ Len(results) = 3
    /\ results[1].status = "success"
    /\ results[2].status = "failure"
    /\ results[3].status = "success"
    /\ results[1].attributes[1].end_date > results[3].attributes[1].end_date

(***************************************************************************)
(* Properties of the observers (checked under SpecObservers).              *)
(***************************************************************************)
\* C15 (as claimed): whatever observers are registered and whatever their
\* update() does, the mapping that aggregation returns is the one it computes
\* from the results alone.
C15_ObserversChangeNothing ==
    mc_pc = "returned" =>
        mc_return = Some(process_results(results, iterations).outcomes)

(***************************************************************************)
(* Properties of the holiday memo (checked under SpecHolidays).            *)
(***************************************************************************)
\* C19 (as claimed): after any sequence of is_holiday calls and country_code
\* assignments, is_holiday(d) on a project whose country code is absent or
\* known returns, and returns true exactly when d is a holiday of the calendar
\* of the country code the project has at the call (false when it has none).
C19_MemoFollowsCountryCode ==
    (/\ last_call # None
     /\ (\/ last_call[1].country_code = None
         \/ last_call[1].country_code[1] \in SupportedCountries))
    => /\ ~last_call[1].raised
       /\ last_call[1].returned
          = (/\ last_call[1].country_code # None
             /\ last_call[1].date
                \in country_holidays(last_call[1].country_code[1],
                                     year(last_call[1].date)))

C22_AddTaskOnce ==
    /\ \A i, j \in 1..Len(group) : group[i] = group[j] => i = j
    /\ task_count(group) = Cardinality(Range(group))
    /\ (last_call # None /\ last_call[1].op = "add_task")
       => LET call == last_call[1]
          IN  /\ call.returned = (call.task \notin Range(call.before))
              /\ group = IF call.returned THEN Append(call.before, call.task)
                         ELSE call.before
              /\ Cardinality({i \in 1..Len(group) : group[i] = call.task}) = 1

\* C22 witness: a task already in a group of two was added again and
\* refused.
C22_Witness ==
    /\ last_call # None
    /\ last_call[1].op = "add_task"
    /\ ~last_call[1].returned
    /\ Len(group) = 2
    /\ group[1] = last_call[1].task

(***************************************************************************)
(* Properties of the Project fields (checked under SpecProject).           *)
(***************************************************************************)
\* C23: a Project, once made and after any assignments, has developer_count
\* >= 1, 0 <= weeks_off_per_year < 52, a non-empty weekly_work_days of values
\* in 0..6, work_hours_per_day in 1..16 and communication_penalty in 0..10
\* hours; a constructor that raised made no Project, an assignment that raised
\* left the field as it was, and one that did not raise set it.
C23_FieldsStayValid ==
    /\ project # None =>
           /\ project[1].developer_count >= 1
           /\ 0 <= project[1].weeks_off_per_year
           /\ project[1].weeks_off_per_year < 52
           /\ project[1].weekly_work_days # <<>>
           /\ \A i \in 1..Len(project[1].weekly_work_days) :
                  project[1].weekly_work_days[i] \in 0..6
           /\ project[1].work_hours_per_day \in 1..16
           /\ project[1].communication_penalty \in 0..(2 * 10)
    /\ (last_call # None /\ last_call[1].op = "Project" /\ last_call[1].raised)
       => project = None
    /\ (last_call # None /\ last_call[1].op = "assign")
       => project[1][last_call[1].field]
          = (IF last_call[1].raised THEN last_call[1].before
             ELSE last_call[1].value)

\* C23 witness: a Project of 2 developers was assigned developer_count = 0,
\* which raised.
C23_Witness ==
    /\ project # None
    /\ last_call # None
    /\ last_call[1].op = "assign"
    /\ last_call[1].field = "developer_count"
    /\ last_call[1].value = 0
    /\ last_call[1].raised
    /\ project[1].developer_count = 2

(***************************************************************************)
(* Properties of Observable (checked under SpecObservable).                *)
(***************************************************************************)
\* how often observer is in the list obs
Registrations(obs, observer) ==
    Cardinality({i \in 1..Len(obs) : obs[i] = observer})

\* C24 (as claimed): notify_observers calls update on every observer in the
\* list; an observer that has just been unregistered is not in the list any
\* more; and registering any observer and unregistering it again gives the
\* list back.
C24_RegisterUnregisterNotify ==
    /\ (last_call # None /\ last_call[1].op = "notify_observers")
       => last_call[1].updated = observers
    /\ (/\ last_call # None
        /\ last_call[1].op = "unregister_observer"
        /\ ~last_call[1].raised)
       => last_call[1].observer \notin Range(observers)
    /\ \A observer \in ObserverKinds :
           unregister_observer(register_observer(observers, observer), observer)
           = observers

\* C24 (amended): notify_observers calls update on the observers of the list,
\* in order, once per entry, up to and including the first one whose update
\* raises; unregister_observer takes the earliest entry of the observer out
\* of the list (one registration less, the others in place) and raises,
\* leaving the list alone, when there is none; registering an observer and
\* unregistering it again gives the list back when the observer was not in
\* it, and always a list with the same observers as often.
C24_EarliestRegistrationRemoved ==
    /\ (last_call # None /\ last_call[1].op = "notify_observers")
       => /\ \A i \in 1..Len(last_call[1].updated) :
                 last_call[1].updated[i] = observers[i]
          /\ Len(last_call[1].updated) <= Len(observers)
          /\ Len(last_call[1].updated) < Len(observers)
                 => last_call[1].updated[Len(last_call[1].updated)] = "raise"
          /\ \A i \in 1..(Len(last_call[1].updated) - 1) :
                 last_call[1].updated[i] # "raise"
    /\ (last_call # None /\ last_call[1].op = "unregister_observer")
       => LET call == last_call[1]
          IN  /\ call.raised = (Registrations(call.before, call.observer) = 0)
              /\ call.raised => observers = call.before
              /\ ~call.raised =>
                     /\ \A o \in ObserverKinds :
                            Registrations(observers, o)
                            = Registrations(call.before, o)
                              - (IF o = call.observer THEN 1 ELSE 0)
                     /\ \E k \in 1..Len(call.before) :
                            /\ call.before[k] = call.observer
                            /\ \A j \in 1..(k - 1) :
                                   call.before[j] # call.observer
                            /\ \A j \in 1..Len(observers) :
                                   observers[j] = call.before[IF j < k THEN j
                                                              ELSE j + 1]
    /\ \A observer \in ObserverKinds :
           LET back == unregister_observer(
                           register_observer(observers, observer), observer)
           IN  /\ Registrations(observers, observer) = 0 => back = observers
               /\ \A o \in ObserverKinds :
                      Registrations(back, o) = Registrations(observers, o)

\* C24 witness: an observer registered twice was unregistered once and is
\* still in the list.
C24_Witness ==
    /\ last_call # None
    /\ last_call[1].op = "unregister_observer"
    /\ ~last_call[1].raised
    /\ Registrations(last_call[1].before, last_call[1].observer) = 2
    /\ observers = <<last_call[1].observer>>


(***************************************************************************)
(* The result and the order of the states of one Iteration.run.            *)
(***************************************************************************)
NonTerminalStates ==
    {"None", "Uninitialized", "CalculatingWeeks", "CalculatingDays",
     "Finalizing"}

TerminalStates == {"Successful", "Error"}

\* C25: the result is None in every non-terminal state; a result that is set
\* was set in a terminal state, is the provisional result of that state (or
\* the fallback failure when there is none), and Iteration.run takes no
\* further step once it is set, so that it never changes.
C25_ResultOnlyInTerminalState ==
    /\ state \in NonTerminalStates => result = None
    /\ result # None =>
           /\ state \in TerminalStates
           /\ run_pc = "running"
           /\ provisional_result # None => result = provisional_result
           /\ ~ENABLED Next

\* C25 witness: a run stopped by the result set in the Error state, and (in
\* another run) by the one set in the Successful state.
C25_Witness ==
    /\ result # None
    /\ ~ENABLED Next
    /\ \/ state = "Successful" /\ result[1].status = "success"
       \/ state = "Error" /\ result[1].status = "failure"


\* The place of a state in the order Uninitialized, CalculatingWeeks,
\* CalculatingDays, Finalizing, Successful; 0 before Iteration.run has set
\* the first state.
StateRank(st) ==
    CASE st = "None" -> 0
      [] st = "Uninitialized" -> 1
      [] st = "CalculatingWeeks" -> 2
      [] st = "CalculatingDays" -> 3
      [] st = "Finalizing" -> 4
      [] st = "Successful" -> 5
      [] st = "Error" -> 6

\* C26: every step of Iteration.run either keeps the state, which happens
\* only in CalculatingWeeks, CalculatingDays, Finalizing or in a step that
\* sets the result or raises, or moves it to the next state of the order, or
\* moves it from a non-terminal state to Error; no step moves it to an
\* earlier state or out of Successful or Error.
C26_StateOnlyMovesForward ==
    [][/\ state \in TerminalStates => state' = state
       /\ state' # state =>
              \/ StateRank(state') = StateRank(state) + 1
              \/ state' = "Error" /\ state \in NonTerminalStates \ {"None"}
       /\ state' = state =>
              \/ state \in {"CalculatingWeeks", "CalculatingDays", "Finalizing"}
              \/ state \in TerminalStates /\ result = None /\ result' # None
              \/ run_pc' = "raised"]_vars

\* C26 witness: a run that went through every state of the order and stayed
\* in CalculatingWeeks and in CalculatingDays on the way.
C26_Witness ==
    /\ state = "Successful"
    /\ result # None
    /\ working_days_left # None
    /\ current_date[1] > project[1].start_date + DAYS_IN_A_WEEK
    /\ person_days_remaining[1] < 12
    /\ AllTasks(project[1]) = <<FixedTask>>


(***************************************************************************)
(* The steps of IterationStateCalculatingWeeks.                            *)
(***************************************************************************)
\* The capacities the week at the cursor can realize, one for each value the
\* vacation draw can take.
WeekCapacities ==
    {probabilistic_person_days_this_week(project[1], work_holidays,
                                         current_date, vacation_days) :
         vacation_days \in
             probabilistic_weekly_person_days_lost_to_vacations(project)}

\* A step of CalculatingWeeks on a project, which did not raise.
WeekStep ==
    /\ state = "CalculatingWeeks"
    /\ project # None
    /\ run_pc' # "raised"

\* C27: a CalculatingWeeks step whose person_days_remaining is at most the
\* capacity of the week, whatever the vacation draw, moves to
\* CalculatingDays; and every CalculatingWeeks step that moves to
\* CalculatingDays sets remainder_days to a capacity of the week that is at
\* least person_days_remaining, and leaves person_days_remaining, the cursor
\* and the rest of the context unchanged.
C27_EnoughCapacityMovesToDays ==
    [][WeekStep =>
         /\ (/\ person_days_remaining # None
             /\ \A c \in WeekCapacities : person_days_remaining[1] <= c)
            => state' = "CalculatingDays"
         /\ state' = "CalculatingDays" =>
                /\ remainder_days' \in WeekCapacities
                /\ person_days_remaining[1] <= remainder_days'
                /\ UNCHANGED <<person_days_remaining, current_date,
                               working_days_left, result, provisional_result,
                               project>>]_vars

\* C27 witness: CalculatingDays just entered, after at least one whole week,
\* with a positive person_days_remaining equal to the capacity of the week.
C27_Witness ==
    /\ state = "CalculatingDays"
    /\ run_pc = "running"
    /\ working_days_left = None
    /\ person_days_remaining[1] > 0
    /\ person_days_remaining[1] = remainder_days
    /\ current_date[1] > project[1].start_date


\* The scenario of test_calculating_weeks: start 2020-01-01, one developer,
\* Monday to Friday, no vacation and no holiday calendar, and one task whose
\* demand is exactly 12 person-days: the capacity of every week is 5.
TwelveDaysFiveAWeek(p) ==
    /\ p.start_date = 0
    /\ p.developer_count = 1
    /\ p.weekly_work_days = <<0, 1, 2, 3, 4>>
    /\ p.weeks_off_per_year = 0
    /\ p.country_code = None
    /\ AllTasks(p) = <<FixedTask>>

\* C28: a CalculatingWeeks step whose person_days_remaining exceeds the
\* capacity of the week, whatever the vacation draw, stays in
\* CalculatingWeeks; every step that stays there moves the cursor forward by
\* exactly 7 days and subtracts from person_days_remaining exactly a capacity
\* of the week that is below it, leaving remainder_days unchanged.  In
\* CalculatingWeeks the cursor is always a whole number of weeks after the
\* start date, and in the scenario of demand 12 and capacity 5 the weeks
\* start on 2020-01-01 with 12 person-days remaining, on 2020-01-08 with 7 and
\* on 2020-01-15 with 2.
C28_ShortCapacityAdvancesAWeek ==
    /\ [](state = "CalculatingWeeks" /\ project # None =>
            /\ current_date # None
            /\ current_date[1] >= project[1].start_date
            /\ (current_date[1] - project[1].start_date) % DAYS_IN_A_WEEK = 0
            /\ TwelveDaysFiveAWeek(project[1]) =>
                   LET h == project[1].work_hours_per_day
                   IN  <<current_date[1], person_days_remaining>> \in
                           {<<0, Some(12 * h)>>, <<7, Some(7 * h)>>,
                            <<14, Some(2 * h)>>})
    /\ [][WeekStep =>
            /\ (/\ person_days_remaining # None
                /\ \A c \in WeekCapacities : person_days_remaining[1] > c)
               => state' = "CalculatingWeeks"
            /\ state' = "CalculatingWeeks" =>
                   /\ current_date' = Some(current_date[1] + 7)
                   /\ \E c \in WeekCapacities :
                          /\ person_days_remaining[1] > c
                          /\ person_days_remaining' =
                                 Some(person_days_remaining[1] - c)
                   /\ UNCHANGED <<remainder_days, working_days_left, result,
                                  provisional_result, project>>]_vars

\* C28 witness: the third week of the scenario, reached by two steps that
\* each took 5 person-days and 7 days.
C28_Witness ==
    /\ project # None
    /\ TwelveDaysFiveAWeek(project[1])
    /\ state = "CalculatingWeeks"
    /\ current_date = Some(14)
    /\ person_days_remaining = Some(2 * project[1].work_hours_per_day)


\* C29: on a project whose holiday calendar is known, every capacity the
\* week at the cursor can realize is at least 0; no CalculatingWeeks step
\* increases person_days_remaining or sets a negative remainder_days; and no
\* step, in any state, unsets the cursor or moves it to an earlier date.
C29_CapacityFlooredCursorForward ==
    /\ []((/\ state = "CalculatingWeeks"
           /\ project # None
           /\ CalendarKnown(project[1]))
          => \A c \in WeekCapacities : c >= 0)
    /\ [][/\ (state = "CalculatingWeeks" /\ person_days_remaining # None)
             => /\ person_days_remaining' # None
                /\ person_days_remaining'[1] <= person_days_remaining[1]
                /\ remainder_days' >= 0
          /\ current_date # None
             => /\ current_date' # None
                /\ current_date'[1] >= current_date[1]]_vars

\* C29 witness: the second week of a project of two developers who were both
\* on vacation in the first: the week's 10 person-days less the communication
\* penalty and the 10 of vacation is below 0, and the step took nothing from
\* the 12 person-days remaining.
C29_Witness ==
    /\ project # None
    /\ project[1].developer_count = 2
    /\ project[1].communication_penalty = 2
    /\ project[1].weeks_off_per_year = 2
    /\ project[1].weekly_work_days = <<0, 1, 2, 3, 4>>
    /\ project[1].country_code = None
    /\ AllTasks(project[1]) = <<FixedTask>>
    /\ state = "CalculatingWeeks"
    /\ current_date = Some(project[1].start_date + DAYS_IN_A_WEEK)
    /\ person_days_remaining = Some(12 * project[1].work_hours_per_day)


\* A project with tasks whose max_person_days_per_week is 0 or below, so that
\* the capacity of every week is 0.
NoWeeklyCapacity ==
    /\ project # None
    /\ AllTasks(project[1]) # <<>>
    /\ max_person_days_per_week(project[1]) <= 0

WorkingNonHoliday(p, d) ==
    InSeq(weekday(d), p.weekly_work_days) /\ ~OnProjectCalendar(p, d)

\* A step of CalculatingDays on a project with a cursor, which did not raise.
DayStep ==
    /\ state = "CalculatingDays"
    /\ project # None
    /\ current_date # None
    /\ run_pc' # "raised"

\* working_days_left as the step sees it before the day test: the value it
\* had, or, when there is none yet, (person_days_remaining / remainder_days)
\* times the number of working non-holiday days of the 7 days from the
\* cursor; a fraction <<numerator, denominator>>.
DaysLeftOnEntry ==
    IF working_days_left # None THEN working_days_left[1]
    ELSE <<(IF person_days_remaining = None THEN 0
            ELSE person_days_remaining[1])
           * Cardinality({d \in current_date[1] .. (current_date[1] + 6) :
                              WorkingNonHoliday(project[1], d)}),
           remainder_days>>

\* C31: only CalculatingDays steps change working_days_left.  The first one
\* computes it as (person_days_remaining / remainder_days) x (the number of
\* working non-holiday days in the 7 days from the cursor), and no later one
\* computes it again; every CalculatingDays step moves the cursor forward by
\* exactly one day, takes exactly 1 from working_days_left when the day it
\* started on is a working non-holiday day and leaves it as it is otherwise,
\* and leaves remainder_days unchanged.
C31_DaysLeftComputedOnceThenDecremented ==
    [][/\ state # "CalculatingDays" => UNCHANGED working_days_left
       /\ state = "CalculatingDays" => UNCHANGED remainder_days
       /\ DayStep =>
              LET entry == DaysLeftOnEntry
                  taken == IF WorkingNonHoliday(project[1], current_date[1])
                           THEN entry[2] ELSE 0
              IN  /\ current_date' = Some(current_date[1] + 1)
                  /\ working_days_left' # None
                  /\ entry[2] > 0
                  /\ working_days_left'[1][2] > 0
                  /\ working_days_left'[1][1] * entry[2]
                         = (entry[1] - taken) * working_days_left'[1][2]]_vars

\* C31 witness: CalculatingDays has just stepped over a holiday without
\* taking anything from a working_days_left that is not a whole number.
C31_Witness ==
    /\ state = "CalculatingDays"
    /\ working_days_left # None
    /\ working_days_left[1][1] > 0
    /\ working_days_left[1][1] % working_days_left[1][2] # 0
    /\ OnProjectCalendar(project[1], current_date[1] - 1)
    /\ InSeq(weekday(current_date[1] - 1), project[1].weekly_work_days)


\* C32 (as claimed): CalculatingDays is left at the first step at which
\* working_days_left is 0 or below, so that no step of a run on a project
\* with tasks leaves the engine in CalculatingDays with a working_days_left
\* of 0 or below.
C32_NonPositiveDaysLeftMovesOn ==
    (/\ state = "CalculatingDays"
     /\ working_days_left # None
     /\ AllTasks(project[1]) # <<>>)
    => working_days_left[1][1] > 0

\* C32 (amended): a CalculatingDays step moves to Finalizing exactly when
\* the day it started on is a working non-holiday day and working_days_left,
\* less the 1 that the step takes, is 0 or below; every other step stays in
\* CalculatingDays.  A working_days_left that is 0 or below when it is first
\* computed stays so, in CalculatingDays, over the non-working days and the
\* holidays up to the first working non-holiday day.
C32_MovesOnAfterWorkingDay ==
    /\ []((/\ state = "CalculatingDays"
           /\ working_days_left # None
           /\ working_days_left[1][1] <= 0)
          => /\ ~WorkingNonHoliday(project[1], current_date[1] - 1)
             /\ run_pc = "running" => ENABLED Next)
    /\ [][DayStep =>
            /\ state' \in {"CalculatingDays", "Finalizing"}
            /\ state' = "Finalizing" <=>
                   /\ WorkingNonHoliday(project[1], current_date[1])
                   /\ DaysLeftOnEntry[1] - DaysLeftOnEntry[2] <= 0]_vars

\* C32 witness: Finalizing entered with a working_days_left of exactly 0,
\* from a value that was above 0, and (in another run) with one below -1,
\* first computed as 0 or below on a day that was not a working day.
C32_Witness ==
    /\ state = "Finalizing"
    /\ working_days_left # None
    /\ \/ working_days_left[1][1] = 0
       \/ /\ working_days_left[1][1] < 0 - working_days_left[1][2]
          /\ ~WorkingNonHoliday(project[1], project[1].start_date)


\* The number of working non-holiday days of the project from day a to day b.
WorkingDaysBetween(p, a, b) ==
    Cardinality({d \in a .. b : WorkingNonHoliday(p, d)})

\* The least whole number that is not below the fraction w (denominator > 0).
Ceiling(w) ==
    IF w[1] % w[2] = 0 THEN w[1] \div w[2] ELSE (w[1] \div w[2]) + 1

\* The scenario of test_calculating_days_with_multiple_devlopers_communicating:
\* start 2020-01-01, 2 developers, communication_penalty 0.5, Monday to
\* Friday, no vacation, the US calendar and a demand of exactly 12.
TwoDevelopersCommunicating(p) ==
    /\ TwelveDaysFromNewYear(p)
    /\ p.developer_count = 2
    /\ p.communication_penalty = 1

\* C33: when person_days_remaining is above 0 on entering CalculatingDays,
\* the week at the cursor has a working non-holiday day, the first
\* working_days_left w is above 0, and CalculatingDays moves to Finalizing
\* at the step of the working non-holiday day that is number ceiling(w) from
\* the date at which it was entered, and at no other step.  In the scenario
\* with 2 developers and communication_penalty 0.5 the run raises nothing and
\* every result is a success whose end_date is 2020-01-13.
C33_FractionRoundedUp ==
    /\ [](project # None /\ TwoDevelopersCommunicating(project[1]) =>
            /\ exc = None
            /\ result = None => ENABLED Next
            /\ \A r \in Range(result) \cup Range(provisional_result) :
                   /\ r.status = "success"
                   /\ r.attributes[1].end_date = 12)
    /\ [][(/\ DayStep
           /\ person_days_remaining # None
           /\ person_days_remaining[1] > 0) =>
            LET p == project[1]
                today == current_date[1]
                entered == today - ((today - p.start_date) % DAYS_IN_A_WEEK)
                w == <<person_days_remaining[1]
                       * WorkingDaysBetween(p, entered, entered + 6),
                       remainder_days>>
                consumed == WorkingDaysBetween(p, entered, today)
            IN  /\ w[1] > 0 /\ w[2] > 0
                /\ consumed <= Ceiling(w)
                /\ state' = "Finalizing" <=>
                       /\ WorkingNonHoliday(p, today)
                       /\ consumed = Ceiling(w)]_vars

\* C33 witness: the scenario ended on 2020-01-13, after three working days
\* taken for a working_days_left that was first between 2 and 3.
C33_Witness ==
    /\ project # None
    /\ TwoDevelopersCommunicating(project[1])
    /\ state = "Successful"
    /\ result # None
    /\ result[1].attributes[1].end_date = 12
    /\ working_days_left[1][1] < 0
    /\ working_days_left[1][1] + 3 * working_days_left[1][2]
           > 2 * working_days_left[1][2]


(***************************************************************************)
(* The steps of IterationStateFinalizing and the terminal states.          *)
(***************************************************************************)
\* C34: a Finalizing step that starts on a day that is not a working
\* non-holiday day moves the cursor forward by one day, stays in Finalizing
\* and records nothing; one that starts on a working non-holiday day leaves
\* the cursor where it is, records the success provisional result whose
\* start_date and end_date are both the cursor date, and moves to Successful.
\* Finalizing is entered on the day after a working non-holiday day, and at
\* every later moment every day from the day it was entered on up to, but
\* not including, the cursor is not a working non-holiday day: the end_date
\* is the first working non-holiday day on or after the day of entry.
C34_FinalizingFindsNextWorkingDay ==
    /\ []((state \in {"Finalizing", "Successful"} /\ project # None) =>
            \E entered \in project[1].start_date .. current_date[1] :
                /\ WorkingNonHoliday(project[1], entered - 1)
                /\ \A d \in entered .. (current_date[1] - 1) :
                       ~WorkingNonHoliday(project[1], d)
                /\ state = "Successful" =>
                       /\ provisional_result =
                              Some([status |-> "success",
                                    message |-> Some("Process completed."),
                                    attributes |->
                                        Some([start_date |-> current_date[1],
                                              end_date |-> current_date[1]])])
                       /\ WorkingNonHoliday(project[1], current_date[1]))
    /\ [][(/\ state = "Finalizing" /\ project # None /\ current_date # None
           /\ run_pc' # "raised") =>
            /\ state' \in {"Finalizing", "Successful"}
            /\ UNCHANGED <<person_days_remaining, remainder_days,
                           working_days_left, result, project>>
            /\ IF WorkingNonHoliday(project[1], current_date[1])
               THEN /\ state' = "Successful"
                    /\ UNCHANGED current_date
                    /\ provisional_result' # None
                    /\ provisional_result'[1].status = "success"
                    /\ provisional_result'[1].attributes[1].start_date
                           = current_date[1]
                    /\ provisional_result'[1].attributes[1].end_date
                           = current_date[1]
               ELSE /\ state' = "Finalizing"
                    /\ current_date' = Some(current_date[1] + 1)
                    /\ UNCHANGED provisional_result]_vars
    /\ [][(state = "CalculatingDays" /\ state' = "Finalizing") =>
            /\ current_date' = Some(current_date[1] + 1)
            /\ WorkingNonHoliday(project[1], current_date[1])]_vars

\* C34 witness: Successful entered on the day after a holiday, which
\* Finalizing stepped over, the result not yet set.
C34_Witness ==
    /\ state = "Successful"
    /\ result = None
    /\ provisional_result # None
    /\ provisional_result[1].attributes[1].end_date = current_date[1]
    /\ OnProjectCalendar(project[1], current_date[1] - 1)
    /\ InSeq(weekday(current_date[1] - 1), project[1].weekly_work_days)


\* C35: in a run of Iteration.run the engine is in Successful only with a
\* success provisional result and in Error only with a failure provisional
\* result, so that the result set there is the provisional result and never
\* one of the two fallback failures.
C35_TerminalStateHasProvisionalResult ==
    /\ state = "Successful" =>
           /\ provisional_result # None
           /\ provisional_result[1].status = "success"
           /\ provisional_result[1].attributes # None
    /\ state = "Error" =>
           /\ provisional_result # None
           /\ provisional_result[1].status = "failure"
           /\ provisional_result[1].message
                  \in {Some(NoProjectMsg), Some(NoTasksMsg)}
    /\ \A r \in Range(result) :
           /\ r.message \notin {Some(ErrorFallbackMsg), Some(SuccessFallbackMsg)}
           /\ result = provisional_result

\* C35 witness: the Error state has set its result, the failure that
\* Uninitialized recorded for a project without tasks; or the Successful
\* state has set the success that Finalizing recorded.
C35_Witness ==
    /\ result # None
    /\ result = provisional_result
    /\ \/ state = "Error" /\ result[1].message = Some(NoTasksMsg)
       \/ state = "Successful" /\ result[1].status = "success"


\* A step of the states named, by the caller, on a context without project,
\* or on one with a project and without cursor date.
StepWithoutProject ==
    /\ run_pc = "running"
    /\ result = None
    /\ state \in {"CalculatingWeeks", "CalculatingDays", "Finalizing"}
    /\ project = None

StepWithoutDate ==
    /\ run_pc = "running"
    /\ result = None
    /\ state \in {"CalculatingDays", "Finalizing"}
    /\ project # None
    /\ current_date = None

\* C36: a process() step in CalculatingWeeks, CalculatingDays or Finalizing
\* on a context without project moves to Error with the failure provisional
\* result "No project was provided."; one in CalculatingDays or Finalizing on
\* a context with a project and no cursor date moves to Error with the
\* failure provisional result "No current date was provided."; both raise
\* nothing and change neither the cursor date nor person_days_remaining, nor
\* remainder_days, working_days_left or the result.
C36_MissingProjectOrDateFails ==
    [][(StepWithoutProject \/ StepWithoutDate) =>
         /\ state' = "Error"
         /\ provisional_result' =
                Some([status |-> "failure",
                      message |-> IF project = None
                                  THEN Some("No project was provided.")
                                  ELSE Some("No current date was provided."),
                      attributes |-> None])
         /\ run_pc' = "running"
         /\ UNCHANGED <<current_date, person_days_remaining, remainder_days,
                        working_days_left, result, exc, project>>]_vars

\* C36 witness: Error entered from a step without cursor date, on a project,
\* with the person_days_remaining the caller had set.
C36_Witness ==
    /\ state = "Error"
    /\ project # None
    /\ current_date = None
    /\ person_days_remaining = Some(5)
    /\ provisional_result # None
    /\ provisional_result[1].message = Some("No current date was provided.")
    /\ result = None


\* C38 (as claimed): whenever a run on a project with tasks is in
\* CalculatingDays without a working_days_left, so that its next step computes
\* it, remainder_days is above 0 and the step does not raise.
C38_RemainderDaysPositive ==
    (/\ state = "CalculatingDays"
     /\ working_days_left = None
     /\ project # None
     /\ AllTasks(project[1]) # <<>>
     /\ CalendarKnown(project[1]))
    => /\ remainder_days > 0
       /\ exc = None

\* C37 (as claimed): once a run on a project with at least one task and
\* max_person_days_per_week > 0 (and a holiday calendar that is known) has
\* begun CalculatingWeeks, it never enters Error, raises nothing, and stops
\* only with a success result that carries an end_date.
C37_AcceptedProjectSucceeds ==
    (/\ project # None
     /\ AllTasks(project[1]) # <<>>
     /\ max_person_days_per_week(project[1]) > 0
     /\ CalendarKnown(project[1])
     /\ state \in {"CalculatingWeeks", "CalculatingDays", "Finalizing",
                   "Successful", "Error"})
    => /\ state # "Error"
       /\ exc = None
       /\ \A r \in Range(result) :
              /\ r.status = "success"
              /\ r.attributes # None
       /\ RunStopped => result # None


\* C39: every success result (provisional or final) has an end_date later
\* than the start_date of the project, with a working non-holiday day between
\* the start_date and the day before the end_date; and whenever a run is in
\* Finalizing or Successful, whatever the demand sample, the cursor is later
\* than the start_date and a working non-holiday day lies between the
\* start_date and the day before the cursor.
C39_EndsAfterStart ==
    /\ \A r \in {x \in Range(result) \cup Range(provisional_result) :
                     x.status = "success"} :
           /\ r.attributes[1].end_date > project[1].start_date
           /\ WorkingDaysBetween(project[1], project[1].start_date,
                                 r.attributes[1].end_date - 1) >= 1
    /\ state \in {"Finalizing", "Successful"} =>
           /\ current_date[1] > project[1].start_date
           /\ WorkingDaysBetween(project[1], project[1].start_date,
                                 current_date[1] - 1) >= 1

\* C39 witness: a success on a project with tasks whose demand sample was 0
\* or below.
C39_Witness ==
    /\ result # None
    /\ result[1].status = "success"
    /\ AllTasks(project[1]) # <<>>
    /\ person_days_remaining[1] <= 0
    /\ result[1].attributes[1].end_date > project[1].start_date


(***************************************************************************)
(* MonteCarlo.run with no iteration requested.                             *)
(***************************************************************************)
\* C40: MonteCarlo.run with an iteration count of 0, on a project whose
\* max_person_days_per_week is above 0, starts no iteration, collects no
\* result, raises nothing (no division by the iteration count is made),
\* emits no monte_carlo_run_iteration, monte_carlo_result_prcessed or
\* monte_carlo_outcome_created event, keeps going until it returns, and
\* returns the empty mapping after the start event, the simulation end event
\* and the start and end events of the two phases of aggregation.
C40_NoIterationsGivesEmptyMapping ==
    (/\ iterations = 0
     /\ project # None
     /\ max_person_days_per_week(project[1]) > 0)
    => /\ mc_started = 0
       /\ run_pc = "none"
       /\ results = <<>>
       /\ mc_exc = None
       /\ mc_pc \in {"constructed", "pool", "returned"}
       /\ mc_pc # "returned" => ENABLED NextMonteCarlo
       /\ \A k \in DOMAIN events :
              events[k].tag \notin {"monte_carlo_run_iteration",
                                    "monte_carlo_result_prcessed",
                                    "monte_carlo_outcome_created",
                                    "monte_carlo_error"}
       /\ mc_pc = "returned" =>
              /\ mc_return = Some(<<>>)
              /\ [k \in DOMAIN events |-> events[k].tag] =
                     <<"monte_carlo_start", "monte_carlo_simulation_end",
                       "monte_carlo_processing_start",
                       "monte_carlo_processing_end",
                       "monte_carlo_outcomes_start",
                       "monte_carlo_outcomes_end">>

\* C40 witness: a run of 0 iterations has returned the empty mapping.
C40_Witness ==
    /\ iterations = 0
    /\ project # None
    /\ max_person_days_per_week(project[1]) > 0
    /\ mc_pc = "returned"
    /\ mc_return = Some(<<>>)
    /\ Len(events) = 6

=============================================================================
